---- MODULE Spec2Model ----
(***************************************************************************)
(* A model of the finite-volume cell integrator fvm_cell (construction,    *)
(* initialize, advance, advance_to) of the arbor repository.               *)
(*                                                                         *)
(* Conventions.  CV indices, segment indices, mechanism-local indices and  *)
(* event targets are 0-based as in the source; arrays indexed by them are  *)
(* functions over 0..n-1.  Lists the source iterates in order (segments,   *)
(* mechanisms_, node_index, stimulii_, the event queue) are sequences.     *)
(* value_type numbers that the integrator divides are exact rationals      *)
(* <<numerator, denominator>>; times are integers (one unit of time).      *)
(***************************************************************************)
EXTENDS Integers, Sequences, FiniteSets, TLC

\* ------------------------------------------------------------------ bounds
\* largest time a client passes as tfinal or as an event time
MaxT == 2
\* most events the queue holds at once
MaxEvents == 2
\* most calls of initialize / advance / advance_to a client makes
MaxRuns == 2
\* how far below 0 a non-positive dt may drive t before the model stops following it
MaxBack == 1
\* most cable segments of a cell handed to the constructor
MaxCables == 2
\* most synapse locations of a cell handed to the constructor
MaxSynapses == 2
\* most events in the vector an explicit_generator is constructed from
MaxInput == 2
\* most arguments of an evaluated s-expression call
MaxArgs == 4
\* most branches handed to make_morphology
MaxBranches == 3

\* --------------------------------------------------------- value_type numbers
Abs(x) == IF x < 0 THEN -x ELSE x

RECURSIVE Gcd(_, _)
Gcd(a, b) == IF b = 0 THEN a ELSE Gcd(b, a % b)

\* the rational n/d in lowest terms with a positive denominator
Rat(n, d) ==
    LET g == Gcd(Abs(n), Abs(d))
        s == IF d < 0 THEN -1 ELSE 1
    IN  <<(s * n) \div g, (s * d) \div g>>

R(n) == <<n, 1>>
\* common factors are taken out before the products are formed
RAdd(a, b) ==
    LET g == Gcd(a[2], b[2])
    IN  Rat(a[1] * (b[2] \div g) + b[1] * (a[2] \div g), (a[2] \div g) * b[2])
RSub(a, b) == RAdd(a, <<-b[1], b[2]>>)
RMul(a, b) ==
    LET g == Gcd(Abs(a[1]), b[2])
        h == Gcd(Abs(b[1]), a[2])
    IN  Rat((a[1] \div g) * (b[1] \div h), (a[2] \div h) * (b[2] \div g))
RDiv(a, b) ==
    LET g == Gcd(Abs(a[1]), Abs(b[1]))
        h == Gcd(a[2], b[2])
    IN  Rat((a[1] \div g) * (b[2] \div h), (a[2] \div h) * (b[1] \div g))

Min(a, b) == IF a < b THEN a ELSE b

\* ------------------------------------------------------------ the cell
\* A cell is [segs, stimulii, synapses, uses].  A segment is
\*   [kind, parent, ncomp, mechs, c_m, r_L, area, al, ar, area_face, length]
\* kind: "soma" | "cable" | "other"; parent: the segment a cable is attached to;
\* ncomp: its compartments (1 for a soma); mechs: the names of its mechanisms,
\* "membrane" among them; c_m, r_L: the "membrane" parameters; area: the soma's
\* area_sphere(radius); al, ar, area_face, length: per compartment, the two
\* frustrum areas, the face area and the length (rationals).
\* A location is [cv], the CV that find_compartment_index gives for it; a
\* stimulus is <<location, i_clamp>> with i_clamp = [delay, duration, amplitude].
\* uses[name] is the set of ion kinds for which the mechanisms made for the
\* density mechanism name answer uses_ion with true.

num_segments(c) == Len(c.segs)

\* cell.segment(i), i 0-based
segment(c, i) == c.segs[i + 1]

\* graph.segment_index: segment_index[s] is the first CV of segment s,
\* segment_index[num_segments] the number of CVs
RECURSIVE segment_index_at(_, _)
segment_index_at(c, s) ==
    IF s = 0 THEN 0 ELSE segment_index_at(c, s - 1) + segment(c, s - 1).ncomp

segment_index(c) == [s \in 0..num_segments(c) |-> segment_index_at(c, s)]

num_compartments(c) == segment_index_at(c, num_segments(c))

\* the segment that holds CV i
seg_of(c, i) ==
    CHOOSE s \in 0..(num_segments(c) - 1) :
        segment_index_at(c, s) <= i /\ i < segment_index_at(c, s + 1)

\* graph.parent_index: the soma's CV is its own parent; the first compartment
\* of a cable hangs off the last CV of its parent segment, the others off the
\* compartment before them
parent_index(c) ==
    [i \in 0..(num_compartments(c) - 1) |->
        LET s == seg_of(c, i)
        IN  IF i = 0 THEN 0
            ELSE IF i > segment_index_at(c, s) THEN i - 1
            ELSE segment_index_at(c, segment(c, s).parent + 1) - 1]

\* find_compartment_index(location, graph): the function is defined outside
\* this file; the CV it returns for a location is part of the input
find_compartment_index(c, l) == l.cv

\* i_clamp::amplitude(t)
amplitude(clamp, t) ==
    IF t >= clamp.delay /\ t < clamp.delay + clamp.duration
    THEN clamp.amplitude ELSE 0

\* ------------------------------------------------------------ mechanisms
\* A mechanism instance is [name, kind, node_index, ions, state, t, dt]:
\* node_index the CVs of its instances, ions the ion kinds for which it answers
\* uses_ion with true, state one number per instance (a density
\* mechanism: the voltage its last state update read; the synapse: the
\* conductance g its events have built up), t and dt the values of the last
\* set_params.

\* the mechanism names a segment can carry, in the key order of
\* std::map<std::string, ...> mech_map
MechNameOrder == <<"hh", "membrane", "pas">>

\* helper->new_mechanism(voltage_, current_, compartment_index), helper the
\* catalogue entry of the mechanism name, ions the ion kinds it uses
new_mechanism(name, node_index, ions) ==
    [name |-> name, kind |-> "density", node_index |-> node_index, ions |-> ions,
     state |-> [k \in 1..Len(node_index) |-> R(0)], t |-> 0, dt |-> 0]

\* make_mechanism<synapse_type>(voltage_, current_, synapse_indexes): the
\* synapse mechanism is made after the ion states and is handed none
make_synapse(node_index) ==
    [name |-> "expsyn", kind |-> "synapse", node_index |-> node_index, ions |-> {},
     state |-> [k \in 1..Len(node_index) |-> R(0)], t |-> 0, dt |-> 0]

\* m->nrn_init(): every instance back to its default state
nrn_init(m) == [m EXCEPT !.state = [k \in 1..Len(m.node_index) |-> R(0)]]

\* m->set_params(t_, dt)
set_params(m, t, dt) == [m EXCEPT !.t = t, !.dt = dt]

\* the current density instance k of m adds to current_[node_index[k]]: a
\* point process adds its conductance scaled by 1/area, a density mechanism
\* (channels closed) adds nothing
mech_current(m, k, areas) ==
    IF m.kind = "synapse" THEN RDiv(m.state[k], areas[m.node_index[k]]) ELSE R(0)

\* m->nrn_current(): accumulate into the shared current vector, instance by instance
RECURSIVE nrn_current_from(_, _, _, _)
nrn_current_from(m, k, cur, areas) ==
    IF k > Len(m.node_index) THEN cur
    ELSE nrn_current_from(m, k + 1,
            [cur EXCEPT ![m.node_index[k]] = RAdd(@, mech_current(m, k, areas))], areas)

nrn_current(m, cur, areas) == nrn_current_from(m, 1, cur, areas)

\* m->nrn_state(): a density mechanism relaxes to the voltage of its CV, a
\* synapse's conductance decays over a step of positive length
nrn_state(m, V) ==
    [m EXCEPT !.state =
        [k \in 1..Len(m.node_index) |->
            IF m.kind = "density" THEN V[m.node_index[k]]
            ELSE IF m.dt > 0 THEN R(0) ELSE m.state[k]]]

\* m->net_receive(target, weight): the weight is added to the conductance of
\* instance target
net_receive(m, target, weight) ==
    [m EXCEPT !.state[target + 1] = RAdd(@, R(weight))]

\* ------------------------------------------------------------ construction
\* the compartment loop over one cable
RECURSIVE cable_loop(_, _, _, _, _)
cable_loop(c, p, seg_idx, k, acc) ==
    IF k = segment(c, seg_idx).ncomp THEN acc
    ELSE LET s  == segment(c, seg_idx)
             i  == segment_index_at(c, seg_idx) + k
             j  == p[i]
             a1 == [acc.cv_areas_ EXCEPT ![j] = RAdd(@, s.al)]
             a2 == [a1 EXCEPT ![i] = RAdd(@, s.ar)]
             c1 == [acc.cv_capacitance_ EXCEPT ![j] = RAdd(@, RMul(s.al, s.c_m))]
             c2 == [c1 EXCEPT ![i] = RAdd(@, RMul(s.ar, s.c_m))]
             fa == [acc.face_alpha_ EXCEPT
                      ![i] = RDiv(s.area_face, RMul(RMul(s.c_m, s.r_L), s.length))]
         IN  cable_loop(c, p, seg_idx, k + 1,
                [acc EXCEPT !.cv_areas_ = a2, !.cv_capacitance_ = c2, !.face_alpha_ = fa])

\* the segment loop without the check that the soma is at index 0
RECURSIVE segment_loop_any_soma(_, _, _, _)
segment_loop_any_soma(c, p, seg_idx, acc) ==
    IF seg_idx = num_segments(c) THEN acc
    ELSE LET s == segment(c, seg_idx)
         IN  IF s.kind = "soma"
             THEN segment_loop_any_soma(c, p, seg_idx + 1,
                         [acc EXCEPT !.cv_areas_[0] = RAdd(@, s.area),
                                     !.cv_capacitance_[0] = RAdd(@, RMul(s.area, s.c_m))])
             ELSE IF s.kind = "cable"
             THEN segment_loop_any_soma(c, p, seg_idx + 1, cable_loop(c, p, seg_idx, 0, acc))
             ELSE [acc EXCEPT !.err = "FVM lowering encountered unsuported segment type"]

\* the loop over cell.segments(): areas, capacitances and face coefficients,
\* or the std::domain_error it throws
RECURSIVE segment_loop(_, _, _, _)
segment_loop(c, p, seg_idx, acc) ==
    IF seg_idx = num_segments(c) THEN acc
    ELSE LET s == segment(c, seg_idx)
         IN  IF s.kind = "soma"
             THEN IF seg_idx # 0
                  THEN [acc EXCEPT !.err = "FVM lowering encountered soma with non-zero index"]
                  ELSE segment_loop(c, p, seg_idx + 1,
                         [acc EXCEPT !.cv_areas_[0] = RAdd(@, s.area),
                                     !.cv_capacitance_[0] = RAdd(@, RMul(s.area, s.c_m))])
             ELSE IF s.kind = "cable"
             THEN segment_loop(c, p, seg_idx + 1, cable_loop(c, p, seg_idx, 0, acc))
             ELSE [acc EXCEPT !.err = "FVM lowering encountered unsuported segment type"]

\* 0.0/0.0, which is not a number
NaN == <<0, 0>>

\* normalize the capacitance by cv_area; a CV without area has no capacitance
\* either, and the quotient is not a number
normalize(cap, areas) ==
    [i \in DOMAIN cap |-> IF areas[i] = R(0) THEN NaN ELSE RDiv(cap[i], areas[i])]

\* mech_map that records the membrane like any other mechanism
RECURSIVE mech_map_with_membrane(_, _, _)
mech_map_with_membrane(c, name, i) ==
    IF i = num_segments(c) THEN <<>>
    ELSE (IF name \in segment(c, i).mechs THEN <<i>> ELSE <<>>)
         \o mech_map_with_membrane(c, name, i + 1)

\* mech_map[name]: the segments that contain the mechanism, in segment order;
\* the membrane is not recorded
RECURSIVE mech_map(_, _, _)
mech_map(c, name, i) ==
    IF i = num_segments(c) THEN <<>>
    ELSE (IF name # "membrane" /\ name \in segment(c, i).mechs THEN <<i>> ELSE <<>>)
         \o mech_map(c, name, i + 1)

\* std::iota over n entries starting at first
iota(first, n) == [k \in 1..n |-> first + k - 1]

\* the indexes of the compartments of the segments segs
RECURSIVE compartment_index(_, _)
compartment_index(c, segs) ==
    IF segs = <<>> THEN <<>>
    ELSE LET seg      == Head(segs)
             seg_size == segment_index_at(c, seg + 1) - segment_index_at(c, seg)
         IN  iota(segment_index_at(c, seg), seg_size) \o compartment_index(c, Tail(segs))

\* one density mechanism per key of mech_map, in key order
RECURSIVE density_mechanisms(_, _)
density_mechanisms(c, n) ==
    IF n > Len(MechNameOrder) THEN <<>>
    ELSE LET name == MechNameOrder[n]
             segs == mech_map(c, name, 0)
         IN  (IF segs = <<>> THEN <<>>
              ELSE <<new_mechanism(name, compartment_index(c, segs), c.uses[name])>>)
             \o density_mechanisms(c, n + 1)

\* synapse_indexes: the CV of every synapse location, in the order of cell.synapses()
synapse_indexes(c) ==
    [k \in 1..Len(c.synapses) |-> find_compartment_index(c, c.synapses[k])]

\* mechanisms::ion_kinds()
ion_kinds == <<"ca", "na", "k">>

\* mech->uses_ion(ion): the answer of the mechanism, which its catalogue entry
\* fixes
uses_ion(m, ion) == ion \in m.ions

\* the entries of a std::set<int>, in its iteration order
set_to_vector(S) ==
    [k \in 1..Cardinality(S) |-> CHOOSE x \in S : Cardinality({y \in S : y < x}) = k - 1]

\* index_set after the loop over the mechanisms: every index of every
\* mechanism of ms that uses ion has been inserted
index_set(ms, ion) ==
    UNION {{ms[j].node_index[k] : k \in 1..Len(ms[j].node_index)} :
              j \in {i \in 1..Len(ms) : uses_ion(ms[i], ion)}}

\* indexes filled by push_back in place of the set: the node_index lists of
\* the mechanisms that use ion, one after the other
RECURSIVE indexes_pushed_back(_, _)
indexes_pushed_back(ms, ion) ==
    IF ms = <<>> THEN <<>>
    ELSE (IF uses_ion(Head(ms), ion) THEN Head(ms).node_index ELSE <<>>)
         \o indexes_pushed_back(Tail(ms), ion)

\* std::vector<int> indexes(index_set.begin(), index_set.end())
indexes(ms, ion) == set_to_vector(index_set(ms, ion))

\* the loop over ion_kinds(): ions_ after kinds n.. have been handled.  An ion
\* state is emplaced when its index list is not empty; set_ion(ion, ions_[ion])
\* default-constructs one that is still missing
RECURSIVE ion_loop(_, _, _)
ion_loop(ms, n, ions) ==
    IF n > Len(ion_kinds) THEN ions
    ELSE LET ion  == ion_kinds[n]
             idx  == indexes(ms, ion)
             used == \E j \in 1..Len(ms) : uses_ion(ms[j], ion)
         IN  ion_loop(ms, n + 1,
                IF idx # <<>> THEN ions @@ (ion :> idx)
                ELSE IF used THEN ions @@ (ion :> <<>>)
                ELSE ions)

\* ion_na(), ion_k(), ion_ca(): ions_[kind], which inserts a default-constructed
\* ion state (no indexes) for a kind the map does not hold
ion_defaults(ions) ==
    [ion \in DOMAIN ions \cup {"na", "k", "ca"} |->
        IF ion \in DOMAIN ions THEN ions[ion] ELSE <<>>]

\* ions_ after construction: built from the density mechanisms (the synapse
\* mechanism is added later), then given the default parameters
build_ions(c) == ion_defaults(ion_loop(density_mechanisms(c, 1), 1, <<>>))

\* the mechanism list: the density mechanisms, then the synapse mechanism
build_mechanisms(c) == density_mechanisms(c, 1) \o <<make_synapse(synapse_indexes(c))>>

\* constexpr value_type DEF_vrest = -65.0;
DEF_vrest == -65

\* the voltage every CV is given by the member initializer
InitialVoltage == R(0)

\* fvm_cell::fvm_cell(cell): the members after construction, or the error thrown
fvm_cell(c) ==
    LET N    == num_compartments(c)
        zero == [i \in 0..(N - 1) |-> R(0)]
        geo  == segment_loop(c, parent_index(c), 0,
                    [cv_areas_ |-> zero, cv_capacitance_ |-> zero,
                     face_alpha_ |-> zero, err |-> ""])
        ms   == build_mechanisms(c)
    IN  IF geo.err # ""
        THEN [ok |-> FALSE, err |-> geo.err]
        ELSE [ok |-> TRUE, err |-> "",
              cv_areas_ |-> geo.cv_areas_,
              face_alpha_ |-> geo.face_alpha_,
              cv_capacitance_ |-> normalize(geo.cv_capacitance_, geo.cv_areas_),
              current_ |-> zero,
              voltage_ |-> [i \in 0..(N - 1) |-> InitialVoltage],
              p |-> parent_index(c),
              mechanisms_ |-> ms,
              ions_ |-> build_ions(c),
              synapse_index_ |-> Len(ms) - 1,
              stimulii_ |-> [k \in 1..Len(c.stimulii) |->
                               <<find_compartment_index(c, c.stimulii[k][1]), c.stimulii[k][2]>>]]

\* ------------------------------------------------------------ event queue
\* An event is [time, target, weight].  The queue is a min-heap by time, ties
\* broken by (target, weight): the sequence of its events in that order.
NoEvent == [time |-> 0, target |-> 0, weight |-> 0]

event_less(a, b) ==
    \/ a.time < b.time
    \/ a.time = b.time /\ a.target < b.target
    \/ a.time = b.time /\ a.target = b.target /\ a.weight < b.weight

\* events_.push(e)
push(q, e) ==
    LET k == Cardinality({n \in 1..Len(q) : ~event_less(e, q[n])})
    IN  SubSeq(q, 1, k) \o <<e>> \o SubSeq(q, k + 1, Len(q))

\* a pop that also takes an event at time t
pop_if_not_after(q, t) ==
    IF q # <<>> /\ Head(q).time <= t
    THEN [first |-> TRUE, second |-> Head(q), queue |-> Tail(q)]
    ELSE [first |-> FALSE, second |-> NoEvent, queue |-> q]

\* events_.pop_if_before(t): <<popped?, the event>> and the queue left
pop_if_before(q, t) ==
    IF q # <<>> /\ Head(q).time < t
    THEN [first |-> TRUE, second |-> Head(q), queue |-> Tail(q)]
    ELSE [first |-> FALSE, second |-> NoEvent, queue |-> q]

\* ------------------------------------------------------------ the matrix
\* an assembly loop that leaves the diagonal of the parent alone
RECURSIVE assemble_own_row_only(_, _, _, _, _)
assemble_own_row_only(m, i, n, dt, alpha) ==
    IF i >= n THEN m
    ELSE LET a  == RMul(R(100000 * dt), alpha[i])
         IN  assemble_own_row_only([m EXCEPT !.d[i] = RAdd(@, a),
                                             !.l[i] = RSub(R(0), a),
                                             !.u[i] = RSub(R(0), a)], i + 1, n, dt, alpha)

\* the assembly loop of setup_matrix over i = 1 .. size-1
RECURSIVE assemble(_, _, _, _, _)
assemble(m, i, n, dt, alpha) ==
    IF i >= n THEN m
    ELSE LET a  == RMul(R(100000 * dt), alpha[i])
             d1 == [m.d EXCEPT ![i] = RAdd(@, a)]
             d2 == [d1 EXCEPT ![m.p[i]] = RAdd(@, a)]
         IN  assemble([m EXCEPT !.d = d2,
                                !.l[i] = RSub(R(0), a),
                                !.u[i] = RSub(R(0), a)], i + 1, n, dt, alpha)

\* setup_matrix with the right hand side of the commented-out line: not
\* scaled by the area of the CV
setup_matrix_rhs_unscaled(m, dt, areas, alpha, cap, V, cur) ==
    LET n      == Cardinality(DOMAIN areas)
        factor == R(10 * dt)
        m1     == assemble([m EXCEPT !.d = areas], 1, n, dt, alpha)
    IN  [m1 EXCEPT !.rhs =
            [i \in DOMAIN areas |->
                RSub(V[i], RMul(RDiv(factor, cap[i]), cur[i]))]]

\* fvm_cell::setup_matrix(dt)
setup_matrix(m, dt, areas, alpha, cap, V, cur) ==
    LET n      == Cardinality(DOMAIN areas)
        factor == R(10 * dt)
        m1     == assemble([m EXCEPT !.d = areas], 1, n, dt, alpha)
    IN  [m1 EXCEPT !.rhs =
            [i \in DOMAIN areas |->
                RMul(areas[i], RSub(V[i], RMul(RDiv(factor, cap[i]), cur[i])))]]

\* matrix::solve(), backward sweep: eliminate the sub-diagonal, i = size-1 .. 1
RECURSIVE hines_backward(_, _)
hines_backward(m, i) ==
    IF i < 1 THEN m
    ELSE LET factor == RDiv(m.l[i], m.d[i])
         IN  hines_backward(
                [m EXCEPT !.d[m.p[i]]   = RSub(@, RMul(factor, m.u[i])),
                          !.rhs[m.p[i]] = RSub(@, RMul(factor, m.rhs[i]))], i - 1)

\* matrix::solve(), forward sweep: back-substitute, i = 1 .. size-1
RECURSIVE hines_forward(_, _, _)
hines_forward(m, i, n) ==
    IF i >= n THEN m
    ELSE hines_forward(
            [m EXCEPT !.rhs[i] = RDiv(RSub(m.rhs[i], RMul(m.u[i], m.rhs[m.p[i]])), m.d[i])],
            i + 1, n)

\* matrix::solve(): rhs is overwritten with the solution
solve(m) ==
    LET n  == Cardinality(DOMAIN m.d)
        m1 == hines_backward(m, n - 1)
        m2 == [m1 EXCEPT !.rhs[0] = RDiv(m1.rhs[0], m1.d[0])]
    IN  hines_forward(m2, 1, n)

\* ------------------------------------------------------------ cells and inputs
\* a location that find_compartment_index maps to CV cv
loc(cv) == [cv |-> cv]

\* the ion kinds the catalogue mechanisms use: the Hodgkin-Huxley channels
\* sodium and potassium, the passive channel and the membrane none
DefaultUses ==
    [name \in {"hh", "membrane", "pas"} |-> IF name = "hh" THEN {"na", "k"} ELSE {}]

soma_seg(mechs) ==
    [kind |-> "soma", parent |-> 0, ncomp |-> 1, mechs |-> mechs \cup {"membrane"},
     c_m |-> R(1), r_L |-> R(100000), area |-> R(100),
     al |-> R(0), ar |-> R(0), area_face |-> R(0), length |-> R(1)]

cable_seg(parent, ncomp, mechs) ==
    [kind |-> "cable", parent |-> parent, ncomp |-> ncomp, mechs |-> mechs \cup {"membrane"},
     c_m |-> R(2), r_L |-> R(100000), area |-> R(0),
     al |-> R(2), ar |-> R(3), area_face |-> R(1), length |-> R(1)]

\* a segment that is neither a soma nor a cable
other_seg(parent) ==
    [kind |-> "other", parent |-> parent, ncomp |-> 1, mechs |-> {},
     c_m |-> R(1), r_L |-> R(100000), area |-> R(0),
     al |-> R(0), ar |-> R(0), area_face |-> R(0), length |-> R(1)]

\* a soma with Hodgkin-Huxley channels, a current clamp and a synapse on it
SomaCell ==
    [segs     |-> <<soma_seg({"hh"})>>,
     stimulii |-> <<<<loc(0), [delay |-> 1, duration |-> 1, amplitude |-> 1]>>>>,
     synapses |-> <<loc(0)>>,
     uses     |-> DefaultUses]

\* a passive soma and cable with a synapse at the far end of the cable and
\* one on the soma
CableCell ==
    [segs     |-> <<soma_seg({}), cable_seg(0, 2, {"pas"})>>,
     stimulii |-> <<>>,
     synapses |-> <<loc(2), loc(0)>>,
     uses     |-> DefaultUses]

SimCells == {SomaCell, CableCell}

\* the events a client pushes: any time up to MaxT, any synapse of the cell;
\* weight 1 on a single-CV cell, weight 0 on a cell with several CVs
CellEvents(c) ==
    {[time |-> tm, target |-> tg, weight |-> IF num_compartments(c) = 1 THEN 1 ELSE 0] :
        tm \in 0..MaxT, tg \in 0..(Len(c.synapses) - 1)}

\* the step sizes a client passes to advance_to and to advance
DtArgs == {-1, 0, 1, 2}
AdvanceArgs == {1, 2}

\* ------------------------------------------------------------ explicit_generator
\* A labeled_synapse_event is [label, time, weight], a spike_event is
\* [target, time, weight].
GenLabels == {"a", "b"}

\* the resolution_function of the cell: the lid of a label
label_resolver(label) == IF label = "a" THEN 1 ELSE 0

\* operator< of spike_event: by delivery time, then target, then weight
spike_event_less(a, b) ==
    \/ a.time < b.time
    \/ a.time = b.time /\ a.target < b.target
    \/ a.time = b.time /\ a.target = b.target /\ a.weight < b.weight

\* std::sort(events_.begin(), events_.end())
RECURSIVE std_sort(_)
std_sort(evs) ==
    IF evs = <<>> THEN <<>>
    ELSE LET rest == std_sort(Tail(evs))
             k    == Cardinality({n \in 1..Len(rest) : spike_event_less(rest[n], Head(evs))})
         IN  SubSeq(rest, 1, k) \o <<Head(evs)>> \o SubSeq(rest, k + 1, Len(rest))

\* resolve_label that leaves the events in the order of the input
resolve_label_unsorted(input, evs) ==
    evs \o [k \in 1..Len(input) |->
                [target |-> label_resolver(input[k].label),
                 time   |-> input[k].time,
                 weight |-> input[k].weight]]

\* explicit_generator::resolve_label: events_ after the call
resolve_label(input, evs) ==
    std_sort(evs \o [k \in 1..Len(input) |->
                        [target |-> label_resolver(input[k].label),
                         time   |-> input[k].time,
                         weight |-> input[k].weight]])

\* std::upper_bound in the place of lower_bound: the first position in
\* [lb, ub) whose event is after t, else ub
RECURSIVE upper_bound(_, _, _, _)
upper_bound(evs, lb, ub, t) ==
    IF lb >= ub THEN ub
    ELSE IF evs[lb + 1].time <= t THEN upper_bound(evs, lb + 1, ub, t)
    ELSE lb

\* std::lower_bound(lb, ub, t, event_time_less{}) on 0-based positions of evs:
\* the first position in [lb, ub) whose event is not before t, else ub
RECURSIVE lower_bound(_, _, _, _)
lower_bound(evs, lb, ub, t) ==
    IF lb >= ub THEN ub
    ELSE IF evs[lb + 1].time < t THEN lower_bound(evs, lb + 1, ub, t)
    ELSE lb

\* ------------------------------------------------------------ cableio
\* match<T>(a.type()): the std::any holds a T
match(T, type) == type = T

\* the loop of match_args_impl over args from position k: [early, found], early
\* when it returned false from inside the loop, found the found_match it left
RECURSIVE match_loop(_, _, _, _)
match_loop(T, args, k, found_match) ==
    IF k > Len(args) THEN [early |-> FALSE, found |-> found_match]
    ELSE LET new_match == match(T, args[k])
         IN  IF new_match /\ found_match THEN [early |-> TRUE, found |-> FALSE]
             ELSE match_loop(T, args, k + 1, new_match)

\* unordered_match<Args...>::match_args_impl<T, Q, Rest...> and <T>
RECURSIVE match_args_impl(_, _)
match_args_impl(Args, args) ==
    LET r == match_loop(Head(Args), args, 1, FALSE)
    IN  IF r.early THEN FALSE
        ELSE IF Len(Args) = 1 THEN r.found
        ELSE r.found \/ match_args_impl(Tail(Args), args)

\* unordered_match<Args...>::operator()
unordered_match(Args, args) ==
    Len(args) = Len(Args) /\ match_args_impl(Args, args)

\* the template arguments of the evaluator of "cable-cell"
CableCellArgs == <<"morphology", "label_dict", "decor">>

\* std::string acc_version()
acc_version == "0.1-dev"

\* write_component(o, x, m) that does not look at the version
write_component_unchecked(o, kind, version) ==
    [thrown |-> "",
     o |-> Append(o, <<"arbor-component", <<"meta-data", <<"version", version>>>>, kind>>)]

\* write_component(std::ostream& o, const X& x, const meta_data& m) for X one
\* of decor, label_dict, morphology, cable_cell: what is thrown and the
\* stream after the call; the s-expression written is kept as
\* <<"arbor-component", meta-data, kind of x>>
write_component(o, kind, version) ==
    IF version # acc_version
    THEN [thrown |-> "cableio_version_error", o |-> o]
    ELSE [thrown |-> "",
          o |-> Append(o, <<"arbor-component", <<"meta-data", <<"version", version>>>>, kind>>)]

\* write_component(std::ostream& o, const cable_cell_component& x): the
\* check, then the visit of x.component with x.meta
write_component_of(o, x) ==
    IF x.version # acc_version
    THEN [thrown |-> "cableio_version_error", o |-> o]
    ELSE write_component(o, x.kind, x.version)

\* parse_component(s), from the outcome of parse(sexp): an error, or a value
\* of some type, a cable_cell_component with its version and component
parse_component(try_parse) ==
    IF ~try_parse.ok
    THEN [ok |-> FALSE, error |-> "cableio_parse_error"]
    ELSE IF ~match("cable_cell_component", try_parse.type)
    THEN [ok |-> FALSE, error |-> "cableio_parse_error"]
    ELSE IF try_parse.version # acc_version
    THEN [ok |-> FALSE, error |-> "cableio_parse_error"]
    ELSE [ok |-> TRUE, version |-> try_parse.version, kind |-> try_parse.kind]

\* arb::mnpos as the int parent of a segment
mnpos == -1

\* the loop of make_morphology over the branches args[k..]: a branch is
\* [id, pid, segments], segments the ids of its segments; acc is
\* [branch_final_seg, branch_children, segs], segs the pairs <<segment id, s_pid>>
RECURSIVE branch_loop(_, _, _)
branch_loop(args, k, acc) ==
    IF k > Len(args) THEN acc
    ELSE LET b        == args[k]
             children == IF b.pid # -1
                         THEN [acc.branch_children EXCEPT ![b.pid] = @ + 1]
                         ELSE acc.branch_children
             s_pid0   == IF b.pid = -1 THEN mnpos ELSE acc.branch_final_seg[b.pid]
             pairs    == [j \in 1..Len(b.segments) |->
                            <<b.segments[j], IF j = 1 THEN s_pid0 ELSE b.segments[j - 1]>>]
         IN  branch_loop(args, k + 1,
                [branch_final_seg |-> [acc.branch_final_seg EXCEPT
                                          ![b.id] = b.segments[Len(b.segments)]],
                 branch_children  |-> children,
                 segs             |-> acc.segs \o pairs])

\* the search for a branch with one child, from the end of branch_children
find_last_single(branch_children) ==
    LET hits == {i \in DOMAIN branch_children : branch_children[i] = 1}
    IN  IF hits = {} THEN -1 ELSE CHOOSE i \in hits : \A j \in hits : j <= i

\* std::find_if(branch_children.begin(), branch_children.end(), i==1): the
\* position found, -1 for end()
find_single(branch_children) ==
    LET hits == {i \in DOMAIN branch_children : branch_children[i] = 1}
    IN  IF hits = {} THEN -1 ELSE CHOOSE i \in hits : \A j \in hits : i <= j

\* std::sort(segs.begin(), segs.end()) by lhs.first.id < rhs.first.id
RECURSIVE sort_by_id(_)
sort_by_id(segs) ==
    IF segs = <<>> THEN <<>>
    ELSE LET rest == sort_by_id(Tail(segs))
             k    == Cardinality({n \in 1..Len(rest) : rest[n][1] < Head(segs)[1]})
         IN  SubSeq(rest, 1, k) \o <<Head(segs)>> \o SubSeq(rest, k + 1, Len(rest))

\* make_morphology(args): the error thrown, or the segments appended to the
\* tree, in order, as <<segment id, s_pid>>
make_morphology(args) ==
    LET n   == Len(args)
        acc == branch_loop(args, 1,
                   [branch_final_seg |-> [i \in 0..(n - 1) |-> 0],
                    branch_children  |-> [i \in 0..(n - 1) |-> 0],
                    segs             |-> <<>>])
        it  == find_single(acc.branch_children)
    IN  IF it # -1
        THEN [thrown |-> "cableio_morphology_error", bid |-> it, tree |-> <<>>]
        ELSE [thrown |-> "", bid |-> -1, tree |-> sort_by_id(acc.segs)]

\* ------------------------------------------------------------ state
VARIABLES
    cell,             \* the cell the integrator was constructed from
    pc,               \* "idle", "failed", a place in a call, or "done" (returning)
    t_,               \* current time
    voltage_,         \* the potential of each CV
    current_,         \* the current of each CV
    mechanisms_,      \* the mechanism list
    events_,          \* the event queue
    matrix_,          \* [p, d, l, u, rhs]
    cv_areas_, face_alpha_, cv_capacitance_, stimulii_, synapse_index_,
    ions_,            \* the index list of each ion state in the ion map
    tfinal, to_dt,    \* advance_to's arguments
    tnext, next,      \* advance_to's locals
    dt,               \* advance's argument
    caller,           \* who called advance: "client" or "advance_to"
    runs,             \* calls the client has made
    lastcall,         \* the client's last call: [op, immediate]
    entry,            \* t_ and events_ when the running advance_to was entered
    snap,             \* t_, voltage_ and mechanisms_ at the end of the last sub-step
                      \* the running advance_to completed (its advance, and the
                      \* dispatch of its event), at its entry before that
    inits,            \* the calls the running (or last) initialize has made, in order
    log,              \* the calls the running (or last) advance has made, in order
    steps,            \* the sub-step sizes of the running (or last) advance_to, dt > 0
    delivered,        \* <<event, t_ at dispatch>> of the running (or last) advance_to
    gstate,           \* the explicit_generator: "none", "made" or "resolved" (its
                      \* labels), "moved" when the original's impl_ was moved from
    input_events_,    \* the labeled events it was constructed from
    pse_events_,      \* its spike events (pse_vector events_)
    start_index_,     \* where its next call of events starts
    was_reset,        \* reset has been called on it
    seq,              \* its last call of events since construction or reset:
                      \* [t0, t1, lb, ub, first], the view returned is
                      \* pse_events_[lb .. ub-1]
    copy_impl,        \* impl_ of the copy of the generator: 0 (no copy made), 1 (the
                      \* object impl_ of the original points at) or 2 (an object of
                      \* its own)
    clone,            \* the object of the copy's own: [input_events_, events_,
                      \* start_index_]
    cseq,             \* the last call of events on the copy since it got its
                      \* object or was reset: [t0, t1, lb, ub]
    cstate,           \* the copy's object: "none", "made", "resolved" or "moved"
    copies,           \* the last copy or move construction or assignment made:
                      \* [op, odd], odd whether an odd number of them were made
    iocall,           \* the last call of a cableio function: [fn, args, ret]
    ostream           \* the output stream handed to write_component: the
                      \* components written to it

object  == <<t_, voltage_, current_, mechanisms_, events_, matrix_>>
fixed   == <<cell, cv_areas_, face_alpha_, cv_capacitance_, stimulii_, synapse_index_,
             ions_>>
frame   == <<tfinal, to_dt, tnext, next, dt, caller>>
history == <<runs, lastcall, entry, snap, inits, log, steps, delivered>>
copied  == <<copy_impl, clone, cseq, cstate, copies>>
generator == <<gstate, input_events_, pse_events_, start_index_, was_reset, seq, copied>>
cableio == <<iocall, ostream>>
vars    == <<pc, object, fixed, frame, history, generator, cableio>>

NoSeq == [t0 |-> 0, t1 |-> 0, lb |-> 0, ub |-> 0, first |-> FALSE]
NoClone == [input_events_ |-> <<>>, events_ |-> <<>>, start_index_ |-> 0]
NoCall == [t0 |-> 0, t1 |-> 0, lb |-> 0, ub |-> 0]
NoCopy == [op |-> "none", odd |-> FALSE]
NoIo == [fn |-> "none", args |-> <<>>, ret |-> <<>>]

NoSnap == [t |-> 0, V |-> <<>>, mechanisms |-> <<>>]

\* the state right after fvm_cell(c) has run
Constructed(c) ==
    \E o \in {fvm_cell(c)} :
    \E z \in {[i \in 0..(num_compartments(c) - 1) |-> R(0)]} :
        /\ cell = c
        /\ pc = IF o.ok THEN "idle" ELSE "failed"
        /\ t_ = 0
        /\ voltage_ = IF o.ok THEN o.voltage_ ELSE z
        /\ current_ = z
        /\ mechanisms_ = IF o.ok THEN o.mechanisms_ ELSE <<>>
        /\ events_ = <<>>
        /\ matrix_ = [p |-> parent_index(c), d |-> z, l |-> z, u |-> z, rhs |-> z]
        /\ cv_areas_ = IF o.ok THEN o.cv_areas_ ELSE z
        /\ face_alpha_ = IF o.ok THEN o.face_alpha_ ELSE z
        /\ cv_capacitance_ = IF o.ok THEN o.cv_capacitance_ ELSE z
        /\ stimulii_ = IF o.ok THEN o.stimulii_ ELSE <<>>
        /\ synapse_index_ = IF o.ok THEN o.synapse_index_ ELSE 0
        /\ ions_ = IF o.ok THEN o.ions_ ELSE <<>>
        /\ tfinal = 0 /\ to_dt = 0 /\ tnext = 0
        /\ next = [first |-> FALSE, second |-> NoEvent]
        /\ dt = 0 /\ caller = "client"
        /\ runs = 0
        /\ lastcall = [op |-> "none", immediate |-> FALSE]
        /\ entry = [t |-> 0, events |-> <<>>]
        /\ snap = NoSnap /\ inits = <<>>
        /\ log = <<>> /\ steps = <<>> /\ delivered = <<>>
        /\ gstate = "none" /\ input_events_ = <<>> /\ pse_events_ = <<>>
        /\ start_index_ = 0 /\ was_reset = FALSE /\ seq = NoSeq
        /\ copy_impl = 0 /\ clone = NoClone /\ cseq = NoCall /\ cstate = "none" /\ copies = NoCopy
        /\ iocall = NoIo /\ ostream = <<>>

Init == \E c \in SimCells : Constructed(c)

\* ------------------------------------------------------------ client calls
\* events_.push(e) through queue(), by a client that has calls left to make
Push(e) ==
    /\ pc = "idle"
    /\ runs < MaxRuns
    /\ Len(events_) < MaxEvents
    /\ events_' = push(events_, e)
    /\ UNCHANGED <<pc, t_, voltage_, current_, mechanisms_, matrix_, fixed, cableio, generator, frame, history>>

\* initialize() that also puts every voltage at the resting potential
InitializeSetsVoltage ==
    /\ pc = "idle"
    /\ runs < MaxRuns
    /\ t_' = 0
    /\ voltage_' = [i \in DOMAIN voltage_ |-> R(DEF_vrest)]
    /\ mechanisms_' = [k \in 1..Len(mechanisms_) |-> nrn_init(mechanisms_[k])]
    /\ runs' = runs + 1
    /\ lastcall' = [op |-> "initialize", immediate |-> FALSE]
    /\ pc' = "done"
    /\ inits' = [k \in 1..Len(mechanisms_) |-> <<"nrn_init", k - 1>>]
    /\ UNCHANGED <<current_, events_, matrix_, fixed, cableio, generator, frame, entry, snap,
                   log, steps, delivered>>

\* initialize() that also empties the event queue
InitializeClearsEvents ==
    /\ pc = "idle"
    /\ runs < MaxRuns
    /\ t_' = 0
    /\ events_' = <<>>
    /\ mechanisms_' = [k \in 1..Len(mechanisms_) |-> nrn_init(mechanisms_[k])]
    /\ runs' = runs + 1
    /\ lastcall' = [op |-> "initialize", immediate |-> FALSE]
    /\ pc' = "done"
    /\ inits' = [k \in 1..Len(mechanisms_) |-> <<"nrn_init", k - 1>>]
    /\ UNCHANGED <<voltage_, current_, matrix_, fixed, cableio, generator, frame,
                   entry, snap, log, steps, delivered>>

\* fvm_cell::initialize()
Initialize ==
    /\ pc = "idle"
    /\ runs < MaxRuns
    /\ t_' = 0
    /\ mechanisms_' = [k \in 1..Len(mechanisms_) |-> nrn_init(mechanisms_[k])]
    /\ runs' = runs + 1
    /\ lastcall' = [op |-> "initialize", immediate |-> FALSE]
    /\ pc' = "done"
    /\ inits' = [k \in 1..Len(mechanisms_) |-> <<"nrn_init", k - 1>>]
    /\ UNCHANGED <<voltage_, current_, events_, matrix_, fixed, cableio, generator, frame,
                   entry, snap, log, steps, delivered>>

\* a client's own call setup_matrix(d)
SetupMatrix(d) ==
    /\ pc = "idle"
    /\ runs < MaxRuns
    /\ matrix_' = setup_matrix(matrix_, d, cv_areas_, face_alpha_,
                               cv_capacitance_, voltage_, current_)
    /\ dt' = d
    /\ runs' = runs + 1
    /\ lastcall' = [op |-> "setup_matrix", immediate |-> FALSE]
    /\ pc' = "done"
    /\ UNCHANGED <<t_, voltage_, current_, mechanisms_, events_, fixed, cableio, generator,
                   tfinal, to_dt, tnext, next, caller, entry, snap, inits, log, steps,
                   delivered>>

\* a client's own call advance(d)
AdvanceCall(d) ==
    /\ pc = "idle"
    /\ runs < MaxRuns
    /\ dt' = d
    /\ caller' = "client"
    /\ pc' = "adv_zero"
    /\ runs' = runs + 1
    /\ lastcall' = [op |-> "advance", immediate |-> FALSE]
    /\ UNCHANGED <<object, fixed, cableio, generator, tfinal, to_dt, tnext, next, entry, snap, inits,
                   log, steps, delivered>>

\* the early return taken only when t_ is past tfinal
returns_when_past(t, tf) == t > tf

\* if(t_>=tfinal) return;
returns_immediately(t, tf) == t >= tf

\* entry of fvm_cell::advance_to(tf, d)
AdvanceTo(tf, d) ==
    /\ pc = "idle"
    /\ runs < MaxRuns
    /\ tfinal' = tf
    /\ to_dt' = d
    /\ pc' = IF returns_immediately(t_, tf) THEN "done" ELSE "at_loop"
    /\ runs' = runs + 1
    /\ lastcall' = [op |-> "advance_to", immediate |-> returns_immediately(t_, tf)]
    /\ entry' = [t |-> t_, events |-> events_]
    /\ snap' = [t |-> t_, V |-> voltage_, mechanisms |-> mechanisms_]
    /\ steps' = <<>>
    /\ delivered' = <<>>
    /\ UNCHANGED <<object, fixed, cableio, generator, tnext, next, dt, caller, log, inits>>

\* ------------------------------------------------------------ advance_to
\* tnext without the std::min: a full step even when it passes tfinal
tnext_unclamped(t, tf, d) == t + d

\* tnext that goes straight to tfinal
tnext_tfinal(t, tf, d) == tf

\* auto tnext = std::min(tfinal, t_+dt);
first_tnext(t, tf, d) == Min(tf, t + d)

\* tnext that is not moved to the popped event's time
tnext_ignores_event(tn, r) == tn

\* if(next.first) tnext = next.second.time;
event_tnext(tn, r) == IF r.first THEN r.second.time ELSE tn

\* the head of the do-loop: tnext, the pop, and the call advance(tnext - t_)
LoopBody ==
    /\ pc = "at_loop"
    /\ t_ >= -MaxBack
    /\ LET r  == pop_if_before(events_, first_tnext(t_, tfinal, to_dt))
           tn == event_tnext(first_tnext(t_, tfinal, to_dt), r)
       IN  /\ next' = [first |-> r.first, second |-> r.second]
           /\ events_' = r.queue
           /\ tnext' = tn
           /\ dt' = tn - t_
           /\ steps' = IF to_dt > 0 THEN Append(steps, tn - t_) ELSE steps
    /\ caller' = "advance_to"
    /\ pc' = "adv_zero"
    /\ UNCHANGED <<t_, voltage_, current_, mechanisms_, matrix_, fixed, cableio, generator, tfinal, to_dt,
                   runs, lastcall, entry, snap, inits, log, delivered>>

\* t_ = tnext;
SetTime ==
    /\ pc = "at_set_t"
    /\ t_' = tnext
    /\ pc' = IF next.first THEN "at_event" ELSE "at_test"
    /\ snap' = [t |-> tnext, V |-> voltage_, mechanisms |-> mechanisms_]
    /\ UNCHANGED <<voltage_, current_, mechanisms_, events_, matrix_, fixed, cableio, generator, frame,
                   runs, lastcall, entry, inits, log, steps, delivered>>

\* mechanisms_[synapse_index_]->net_receive(e.target, e.weight);
HandleEvent ==
    /\ pc = "at_event"
    /\ mechanisms_' = [mechanisms_ EXCEPT ![synapse_index_ + 1] =
                          net_receive(@, next.second.target, next.second.weight)]
    /\ delivered' = Append(delivered, <<next.second, t_>>)
    /\ snap' = [t |-> t_, V |-> voltage_, mechanisms |-> mechanisms_']
    /\ pc' = "at_test"
    /\ UNCHANGED <<t_, voltage_, current_, events_, matrix_, fixed, cableio, generator, frame,
                   runs, lastcall, entry, inits, log, steps>>

\* while(t_<tfinal);
LoopTest ==
    /\ pc = "at_test"
    /\ pc' = IF t_ < tfinal THEN "at_loop" ELSE "done"
    /\ UNCHANGED <<object, fixed, cableio, generator, frame, history>>

\* ------------------------------------------------------------ advance
\* advance with the state update before the voltage is overwritten
advance_order_state_first ==
    <<"adv_zero", "adv_current", "adv_stim", "adv_matrix", "adv_state",
      "adv_assign", "adv_time">>

\* the statements of advance(dt), in the order the source runs them
advance_order ==
    <<"adv_zero", "adv_current", "adv_stim", "adv_matrix", "adv_assign",
      "adv_state", "adv_time">>

\* the statement after phase ph; after the last one advance returns to its caller
after(ph) ==
    LET k == CHOOSE n \in 1..Len(advance_order) : advance_order[n] = ph
    IN  IF k < Len(advance_order) THEN advance_order[k + 1]
        ELSE IF caller = "advance_to" THEN "at_set_t" ELSE "done"

\* current_(all) = 0.;
AdvZero ==
    /\ pc = "adv_zero"
    /\ current_' = [i \in DOMAIN current_ |-> R(0)]
    /\ log' = IF advance_order[1] = "adv_zero" THEN <<<<"zero", 0>>>>
              ELSE Append(log, <<"zero", 0>>)
    /\ pc' = after("adv_zero")
    /\ UNCHANGED <<t_, voltage_, mechanisms_, events_, matrix_, fixed, cableio, generator, frame,
                   runs, lastcall, entry, snap, inits, steps, delivered>>

\* for(auto& m : mechanisms_) { m->set_params(t_, dt); m->nrn_current(); }
RECURSIVE current_loop(_, _, _, _, _, _)
current_loop(ms, k, cur, t, h, areas) ==
    IF k > Len(ms) THEN [mechanisms |-> ms, current |-> cur, log |-> <<>>]
    ELSE LET m == set_params(ms[k], t, h)
             r == current_loop([ms EXCEPT ![k] = m], k + 1,
                               nrn_current(m, cur, areas), t, h, areas)
         IN  [r EXCEPT !.log = <<<<"set_params", k - 1>>, <<"nrn_current", k - 1>>>> \o @]

AdvCurrent ==
    /\ pc = "adv_current"
    /\ LET r == current_loop(mechanisms_, 1, current_, t_, dt, cv_areas_)
       IN  /\ mechanisms_' = r.mechanisms
           /\ current_' = r.current
           /\ log' = log \o r.log
    /\ pc' = after("adv_current")
    /\ UNCHANGED <<t_, voltage_, events_, matrix_, fixed, cableio, generator, frame,
                   runs, lastcall, entry, snap, inits, steps, delivered>>

\* for(auto& stim : stimulii_) current_[loc] -= 100.*ie/cv_areas_[loc];
RECURSIVE stimulus_loop(_, _, _, _, _)
stimulus_loop(stims, k, cur, t, areas) ==
    IF k > Len(stims) THEN cur
    ELSE LET ie  == amplitude(stims[k][2], t)
             at  == stims[k][1]
         IN  stimulus_loop(stims, k + 1,
                [cur EXCEPT ![at] = RSub(@, RDiv(R(100 * ie), areas[at]))], t, areas)

AdvStim ==
    /\ pc = "adv_stim"
    /\ current_' = stimulus_loop(stimulii_, 1, current_, t_, cv_areas_)
    /\ log' = Append(log, <<"stimulii", 0>>)
    /\ pc' = after("adv_stim")
    /\ UNCHANGED <<t_, voltage_, mechanisms_, events_, matrix_, fixed, cableio, generator, frame,
                   runs, lastcall, entry, snap, inits, steps, delivered>>

\* setup_matrix(dt); matrix_.solve();
AdvMatrix ==
    /\ pc = "adv_matrix"
    /\ matrix_' = solve(setup_matrix(matrix_, dt, cv_areas_, face_alpha_,
                                     cv_capacitance_, voltage_, current_))
    /\ log' = log \o <<<<"setup_matrix", 0>>, <<"solve", 0>>>>
    /\ pc' = after("adv_matrix")
    /\ UNCHANGED <<t_, voltage_, current_, mechanisms_, events_, fixed, cableio, generator, frame,
                   runs, lastcall, entry, snap, inits, steps, delivered>>

\* voltage_(all) = matrix_.rhs();
AdvAssign ==
    /\ pc = "adv_assign"
    /\ voltage_' = matrix_.rhs
    /\ log' = Append(log, <<"voltage", 0>>)
    /\ pc' = after("adv_assign")
    /\ UNCHANGED <<t_, current_, mechanisms_, events_, matrix_, fixed, cableio, generator, frame,
                   runs, lastcall, entry, snap, inits, steps, delivered>>

\* for(auto& m : mechanisms_) m->nrn_state();
AdvState ==
    /\ pc = "adv_state"
    /\ mechanisms_' = [k \in 1..Len(mechanisms_) |-> nrn_state(mechanisms_[k], voltage_)]
    /\ log' = log \o [k \in 1..Len(mechanisms_) |-> <<"nrn_state", k - 1>>]
    /\ pc' = after("adv_state")
    /\ UNCHANGED <<t_, voltage_, current_, events_, matrix_, fixed, cableio, generator, frame,
                   runs, lastcall, entry, snap, inits, steps, delivered>>

\* t_ += dt;
AdvTime ==
    /\ pc = "adv_time"
    /\ t_' = t_ + dt
    /\ log' = Append(log, <<"t", 0>>)
    /\ pc' = after("adv_time")
    /\ UNCHANGED <<voltage_, current_, mechanisms_, events_, matrix_, fixed, cableio, generator, frame,
                   runs, lastcall, entry, snap, inits, steps, delivered>>

\* the call has returned to the client: its arguments and locals are gone
Return ==
    /\ pc = "done"
    /\ pc' = "idle"
    /\ tfinal' = 0 /\ to_dt' = 0 /\ tnext' = 0
    /\ next' = [first |-> FALSE, second |-> NoEvent]
    /\ dt' = 0 /\ caller' = "client"
    /\ lastcall' = [op |-> "none", immediate |-> FALSE]
    /\ entry' = [t |-> 0, events |-> <<>>]
    /\ snap' = NoSnap /\ inits' = <<>>
    /\ log' = <<>> /\ steps' = <<>> /\ delivered' = <<>>
    /\ UNCHANGED <<object, fixed, cableio, generator, runs>>

Advance == AdvZero \/ AdvCurrent \/ AdvStim \/ AdvMatrix \/ AdvAssign \/ AdvState \/ AdvTime

Running == LoopBody \/ SetTime \/ HandleEvent \/ LoopTest \/ Advance

Next ==
    \/ \E e \in CellEvents(cell) : Push(e)
    \/ Initialize
    \/ \E d \in AdvanceArgs : AdvanceCall(d)
    \/ \E tf \in 0..MaxT, d \in DtArgs : AdvanceTo(tf, d)
    \/ Running
    \/ Return

Spec == Init /\ [][Next]_vars

\* ENABLED <<Running>>_vars: a call is at one of its statements (every statement
\* changes pc); at the head of the loop, the time is still within the model's range
RunningEnabled ==
    \/ pc = "at_loop" /\ t_ >= -MaxBack
    \/ pc \in {"at_set_t", "at_event", "at_test"}
    \/ pc \in {advance_order[k] : k \in 1..Len(advance_order)}

\* the integrator runs a call to its end: it is single-threaded and never waits.
\* This is WF_vars(Running), with its enabling condition written out.
FairFvm == []<>~RunningEnabled \/ []<><<Running>>_vars

\* a client that queues events and calls advance_to, and the calls run to their end
NextTo ==
    \/ \E e \in CellEvents(cell) : Push(e)
    \/ \E tf \in 0..MaxT, d \in DtArgs : AdvanceTo(tf, d)
    \/ Running
    \/ Return

\* on the cell with a cable, whose events carry no weight
InitTo == Constructed(CableCell)

FairSpec == InitTo /\ [][NextTo]_vars /\ FairFvm

\* ------------------------------------------------------------ a callee that throws
\* A call made by the running advance_to throws: callee is set_params,
\* nrn_current or nrn_state of mechanism k, or amplitude, solve or net_receive
\* (k = 1).  The callee throws as it is entered.  advance and advance_to catch
\* nothing: the exception leaves them at once, with the members as the
\* statements before the call have left them; when nrn_current of mechanism k
\* throws, set_params(t_, dt) has run on that mechanism.
ThrowAt(callee) ==
    IF callee \in {"set_params", "nrn_current"} THEN "adv_current"
    ELSE IF callee = "amplitude" THEN "adv_stim"
    ELSE IF callee = "solve" THEN "adv_matrix"
    ELSE IF callee = "nrn_state" THEN "adv_state"
    ELSE "at_event"

Callees == {"set_params", "nrn_current", "amplitude", "solve", "nrn_state", "net_receive"}

Throw(k, callee) ==
    /\ lastcall.op = "advance_to"
    /\ pc = ThrowAt(callee)
    /\ k \in 1..Len(mechanisms_)
    /\ callee \in {"amplitude", "solve", "net_receive"} => k = 1
    /\ LET before == SubSeq(mechanisms_, 1, k - 1)
           rest   == SubSeq(mechanisms_, k, Len(mechanisms_))
           r      == current_loop(before, 1, current_, t_, dt, cv_areas_)
       IN  /\ mechanisms_' =
                 IF callee = "set_params" THEN r.mechanisms \o rest
                 ELSE IF callee = "nrn_current"
                 THEN r.mechanisms \o <<set_params(mechanisms_[k], t_, dt)>> \o Tail(rest)
                 ELSE IF callee = "nrn_state"
                 THEN [j \in 1..Len(before) |-> nrn_state(before[j], voltage_)] \o rest
                 ELSE mechanisms_
           /\ current_' = IF pc = "adv_current" THEN r.current ELSE current_
           /\ log' =
                 IF callee = "set_params" THEN log \o r.log
                 ELSE IF callee = "nrn_current"
                 THEN log \o r.log \o <<<<"set_params", k - 1>>>>
                 ELSE IF callee = "solve" THEN Append(log, <<"setup_matrix", 0>>)
                 ELSE IF callee = "nrn_state"
                 THEN log \o [j \in 1..Len(before) |-> <<"nrn_state", j - 1>>]
                 ELSE log
    /\ matrix_' = IF callee = "solve"
                  THEN setup_matrix(matrix_, dt, cv_areas_, face_alpha_,
                                    cv_capacitance_, voltage_, current_)
                  ELSE matrix_
    /\ pc' = "thrown"
    /\ UNCHANGED <<t_, voltage_, events_, fixed, cableio, generator, frame,
                   runs, lastcall, entry, snap, inits, steps, delivered>>

\* the client has caught the exception: the call's arguments and locals are
\* gone, the members stay as the exception left them
Catch ==
    /\ pc = "thrown"
    /\ pc' = "idle"
    /\ tfinal' = 0 /\ to_dt' = 0 /\ tnext' = 0
    /\ next' = [first |-> FALSE, second |-> NoEvent]
    /\ dt' = 0 /\ caller' = "client"
    /\ lastcall' = [op |-> "none", immediate |-> FALSE]
    /\ entry' = [t |-> 0, events |-> <<>>]
    /\ snap' = NoSnap /\ inits' = <<>>
    /\ log' = <<>> /\ steps' = <<>> /\ delivered' = <<>>
    /\ UNCHANGED <<object, fixed, cableio, generator, runs>>

\* a client that queues events and calls advance_to on the soma, whose callees may throw
NextThrow ==
    \/ \E e \in CellEvents(cell) : Push(e)
    \/ \E tf \in 0..MaxT, d \in AdvanceArgs : AdvanceTo(tf, d)
    \/ Running
    \/ \E k \in 1..Len(mechanisms_), callee \in Callees : Throw(k, callee)
    \/ Catch
    \/ Return

SpecThrow == Constructed(SomaCell) /\ [][NextThrow]_vars

\* ------------------------------------------------------------ the timing scenario
\* one synaptic event at 3.3 ms, dt = 0.5 ms, tfinal = 10 ms, in tenths of a ms
ScenarioEvent == [time |-> 33, target |-> 0, weight |-> 1]

ScenarioInit == Constructed(SomaCell)

ScenarioNext ==
    \/ Push(ScenarioEvent)
    \/ AdvanceTo(100, 5)
    \/ Running
    \/ Return

SpecScenario == ScenarioInit /\ [][ScenarioNext]_vars

\* ------------------------------------------------------------ construction alone
\* the mechanisms a segment may carry
MechChoices == {{}, {"pas"}, {"hh", "pas"}}

\* the cables that can be segment k: attached to the soma or to segment k - 1
Cables(k) ==
    {cable_seg(parent, ncomp, mechs) :
        parent \in {0, k - 1}, ncomp \in {1, 2}, mechs \in MechChoices}

\* a soma followed by n cables
RECURSIVE SegmentLists(_)
SegmentLists(n) ==
    IF n = 0 THEN {<<soma_seg({"hh"})>>}
    ELSE {Append(segs, s) : segs \in SegmentLists(n - 1), s \in Cables(n)}

\* up to m synapse locations, in any order, on the first and the last of ncv
\* CVs, ncv no more than the CVs of the cell
RECURSIVE SynapseLists(_, _)
SynapseLists(ncv, m) ==
    IF m = 0 THEN {<<>>}
    ELSE LET shorter == SynapseLists(ncv, m - 1)
         IN  shorter \cup {Append(syn, l) : syn \in shorter,
                                            l \in {loc(0), loc(ncv - 1)}}

\* a soma followed by up to MaxCables cables
CtorCells ==
    UNION {
        {[segs |-> segs, stimulii |-> <<>>, synapses |-> syn, uses |-> DefaultUses] :
            segs \in SegmentLists(n), syn \in SynapseLists(n + 1, MaxSynapses)} :
        n \in 0..MaxCables}

\* catalogues in which the passive channel uses an ion too: the same ion as
\* the Hodgkin-Huxley channels or another one
IonUses ==
    {[name \in {"hh", "membrane", "pas"} |->
         IF name = "hh" THEN h ELSE IF name = "pas" THEN p ELSE {}] :
        h \in {{"na", "k"}, {"ca"}}, p \in {{"na"}, {"ca"}}}

\* a soma followed by up to m cables, without stimuli and synapses, under
\* each of these catalogues
IonCells(m) ==
    {[segs |-> segs, stimulii |-> <<>>, synapses |-> <<>>, uses |-> uses] :
        segs \in UNION {SegmentLists(n) : n \in 0..m}, uses \in IonUses}

\* the segments that can stand at index k of a list of any kinds
AnySegments(k) ==
    {soma_seg({}), cable_seg(IF k = 0 THEN 0 ELSE k - 1, 1, {"pas"}),
     other_seg(IF k = 0 THEN 0 ELSE k - 1)}

\* lists of n segments of any kinds in any order
RECURSIVE KindLists(_)
KindLists(n) ==
    IF n = 0 THEN {<<>>}
    ELSE {Append(segs, s) : segs \in KindLists(n - 1), s \in AnySegments(n - 1)}

\* cells of up to MaxCables + 1 segments of any kinds, without stimuli and synapses
KindCells ==
    {[segs |-> segs, stimulii |-> <<>>, synapses |-> <<>>, uses |-> DefaultUses] :
        segs \in UNION {KindLists(n) : n \in 1..(MaxCables + 1)}}

InitCtor == \E c \in CtorCells \cup KindCells \cup IonCells(MaxCables) : Constructed(c)

FirstInitialize == runs = 0 /\ Initialize

NextCtor == FirstInitialize \/ Return

SpecCtor == InitCtor /\ [][NextCtor]_vars

\* ------------------------------------------------------------ one call on many cells
\* a soma with Hodgkin-Huxley channels, alone or with one cable, and any synapses
MechCells == {c \in CtorCells : Len(c.segs) <= 2}

InitMech == \E c \in MechCells : Constructed(c)

\* a client that queues at most one event and calls advance_to once, with dt = 1
NextMech ==
    \/ \E e \in CellEvents(cell) : runs = 0 /\ events_ = <<>> /\ Push(e)
    \/ \E tf \in 1..MaxT : runs = 0 /\ AdvanceTo(tf, 1)
    \/ Running
    \/ Return

SpecMech == InitMech /\ [][NextMech]_vars

\* ------------------------------------------------------------ a cell at rest
\* a soma followed by n cables of one or two compartments, each attached to
\* any segment before it; no mechanisms but the membrane
RECURSIVE RestLists(_)
RestLists(n) ==
    IF n = 0 THEN {<<soma_seg({})>>}
    ELSE {Append(segs, cable_seg(p, nc, {})) :
            segs \in RestLists(n - 1), p \in 0..(n - 1), nc \in {1, 2}}

\* cells without mechanisms, stimuli and synapses, on every tree of up to
\* MaxCables cables and MaxCables + 3 CVs (the exact quotients of the solve on
\* a larger tree do not fit 32-bit integers)
RestCells ==
    {c \in {[segs |-> segs, stimulii |-> <<>>, synapses |-> <<>>, uses |-> DefaultUses] :
                segs \in UNION {RestLists(n) : n \in 0..MaxCables}} :
        num_compartments(c) <= MaxCables + 3}

\* the potentials a client writes
RestVoltages == {DEF_vrest, 1}

\* voltage()(all) = v, by a client that has made no call yet
SetVoltage(v) ==
    /\ pc = "idle"
    /\ runs = 0
    /\ voltage_' = [i \in DOMAIN voltage_ |-> R(v)]
    /\ UNCHANGED <<pc, t_, current_, mechanisms_, events_, matrix_, fixed, cableio, generator, frame, history>>

InitRest == \E c \in RestCells : Constructed(c)

\* no event is ever queued, so the loop of advance_to never dispatches one
NextRest ==
    \/ \E v \in RestVoltages : SetVoltage(v)
    \/ \E d \in AdvanceArgs : SetupMatrix(d)
    \/ \E d \in AdvanceArgs : AdvanceCall(d)
    \/ \E tf \in 1..MaxT, d \in AdvanceArgs : AdvanceTo(tf, d)
    \/ LoopBody \/ SetTime \/ LoopTest \/ Advance
    \/ Return

SpecRest == InitRest /\ [][NextRest]_vars

\* ------------------------------------------------------------ generator calls
\* the labeled events of the input vectors: at every time up to MaxT, two
\* events that differ in the target and two that differ in the weight only
GenEvents ==
    {[label |-> lw[1], time |-> tm, weight |-> lw[2]] :
        lw \in {<<"a", 1>>, <<"b", 1>>, <<"b", 2>>}, tm \in 0..MaxT}

\* the vectors of labeled events a generator is constructed from, in any order
RECURSIVE GenInputs(_)
GenInputs(n) ==
    IF n = 0 THEN {<<>>}
    ELSE LET shorter == GenInputs(n - 1)
         IN  shorter \cup
             {Append(in, e) : in \in {x \in shorter : Len(x) = n - 1}, e \in GenEvents}

\* explicit_generator(const lse_vector& events)
MakeGenerator(input) ==
    /\ gstate = "none"
    /\ gstate' = "made"
    /\ input_events_' = input
    /\ start_index_' = 0
    /\ UNCHANGED <<pc, object, fixed, cableio, frame, history, copied, pse_events_, was_reset, seq>>

\* explicit_generator::resolve_label, called once
ResolveLabel ==
    /\ gstate = "made"
    /\ gstate' = "resolved"
    /\ pse_events_' = resolve_label(input_events_, pse_events_)
    /\ UNCHANGED <<pc, object, fixed, cableio, frame, history, copied, input_events_, start_index_,
                   was_reset, seq>>

\* reset that keeps start_index_
ResetKeepsIndex ==
    /\ gstate \in {"made", "resolved"}
    /\ was_reset' = TRUE
    /\ seq' = NoSeq
    /\ UNCHANGED <<pc, object, fixed, cableio, frame, history, copied, gstate, input_events_, pse_events_,
                   start_index_>>

\* explicit_generator::reset
Reset ==
    /\ gstate \in {"made", "resolved"}
    /\ start_index_' = 0
    /\ was_reset' = TRUE
    /\ seq' = NoSeq
    /\ UNCHANGED <<pc, object, fixed, cableio, frame, history, copied, gstate, input_events_, pse_events_>>

\* explicit_generator::events(t0, t1), called as its interface requires: after
\* the labels are resolved, with t0 <= t1, and not before the end of the
\* interval of the call before it
Events(t0, t1) ==
    /\ gstate = "resolved"
    /\ t0 <= t1
    /\ seq = NoSeq \/ seq.t1 <= t0
    /\ LET lb == lower_bound(pse_events_, start_index_, Len(pse_events_), t0)
           ub == lower_bound(pse_events_, lb, Len(pse_events_), t1)
       IN  /\ start_index_' = ub
           /\ seq' = [t0 |-> t0, t1 |-> t1, lb |-> lb, ub |-> ub, first |-> seq = NoSeq]
    /\ UNCHANGED <<pc, object, fixed, cableio, frame, history, copied, gstate, input_events_, pse_events_,
                   was_reset>>

\* the members of the explicit_generator the original holds, as a record
Wrapped == [input_events_ |-> input_events_, events_ |-> pse_events_,
            start_index_ |-> start_index_]

\* the state of the object the copy's impl_ points at
CopyState == IF copy_impl = 1 THEN gstate ELSE cstate

\* event_generator(const event_generator& other): impl_(other.impl_->clone()),
\* if the clone were the object itself
CopyGeneratorShared ==
    /\ gstate \in {"made", "resolved"}
    /\ copy_impl = 0
    /\ copy_impl' = 1
    /\ cstate' = gstate
    /\ copies' = [op |-> "copy", odd |-> ~copies.odd]
    /\ UNCHANGED <<pc, object, fixed, cableio, frame, history, gstate, input_events_, pse_events_,
                   start_index_, was_reset, seq, clone, cseq>>

\* event_generator(const event_generator& other): impl_(other.impl_->clone()),
\* and wrap::clone: a new wrap object that holds a copy of the explicit_generator
CopyGenerator ==
    /\ gstate \in {"made", "resolved"}
    /\ copy_impl = 0
    /\ copy_impl' = 2
    /\ clone' = Wrapped
    /\ cstate' = gstate
    /\ copies' = [op |-> "copy", odd |-> ~copies.odd]
    /\ UNCHANGED <<pc, object, fixed, cableio, frame, history, gstate, input_events_, pse_events_,
                   start_index_, was_reset, seq, cseq>>

\* event_generator(event_generator&& other) = default: the new generator takes
\* the object, the original's impl_ is left null
MoveGenerator ==
    /\ gstate \in {"made", "resolved"}
    /\ copy_impl = 0
    /\ copy_impl' = 2
    /\ clone' = Wrapped
    /\ cstate' = gstate
    /\ gstate' = "moved"
    /\ input_events_' = <<>> /\ pse_events_' = <<>> /\ start_index_' = 0
    /\ seq' = NoSeq
    /\ copies' = [op |-> "move", odd |-> ~copies.odd]
    /\ UNCHANGED <<pc, object, fixed, cableio, frame, history, was_reset, cseq>>

\* copy = original, operator=(const event_generator& other):
\* impl_ = other.impl_->clone()
AssignCopy ==
    /\ gstate \in {"made", "resolved"}
    /\ copy_impl # 0
    /\ copy_impl' = 2
    /\ clone' = Wrapped
    /\ cstate' = gstate
    /\ cseq' = NoCall
    /\ copies' = [op |-> "assign_copy", odd |-> ~copies.odd]
    /\ UNCHANGED <<pc, object, fixed, cableio, frame, history, gstate, input_events_, pse_events_,
                   start_index_, was_reset, seq>>

\* original = copy, operator=(const event_generator& other)
AssignOriginal ==
    /\ copy_impl = 2
    /\ cstate \in {"made", "resolved"}
    /\ input_events_' = clone.input_events_
    /\ pse_events_' = clone.events_
    /\ start_index_' = clone.start_index_
    /\ gstate' = cstate
    /\ seq' = NoSeq
    /\ copies' = [op |-> "assign_original", odd |-> ~copies.odd]
    /\ UNCHANGED <<pc, object, fixed, cableio, frame, history, was_reset, copy_impl, clone, cseq,
                   cstate>>

\* copy = std::move(original), operator=(event_generator&& other) = default
MoveAssignCopy ==
    /\ gstate \in {"made", "resolved"}
    /\ copy_impl # 0
    /\ copy_impl' = 2
    /\ clone' = Wrapped
    /\ cstate' = gstate
    /\ cseq' = NoCall
    /\ gstate' = "moved"
    /\ input_events_' = <<>> /\ pse_events_' = <<>> /\ start_index_' = 0
    /\ seq' = NoSeq
    /\ copies' = [op |-> "move_assign_copy", odd |-> ~copies.odd]
    /\ UNCHANGED <<pc, object, fixed, cableio, frame, history, was_reset>>

\* original = std::move(copy), operator=(event_generator&& other) = default
MoveAssignOriginal ==
    /\ copy_impl = 2
    /\ cstate \in {"made", "resolved"}
    /\ input_events_' = clone.input_events_
    /\ pse_events_' = clone.events_
    /\ start_index_' = clone.start_index_
    /\ gstate' = cstate
    /\ seq' = NoSeq
    /\ cstate' = "moved"
    /\ clone' = NoClone
    /\ cseq' = NoCall
    /\ copies' = [op |-> "move_assign_original", odd |-> ~copies.odd]
    /\ UNCHANGED <<pc, object, fixed, cableio, frame, history, was_reset, copy_impl>>

\* resolve_label on the copy: impl_->resolve_label(label_resolver), called once
\* on an object whose labels are not resolved
ResolveLabelCopy ==
    /\ copy_impl # 0
    /\ CopyState = "made"
    /\ IF copy_impl = 2
       THEN /\ clone' = [clone EXCEPT !.events_ = resolve_label(clone.input_events_, @)]
            /\ cstate' = "resolved"
            /\ UNCHANGED <<pse_events_, gstate>>
       ELSE /\ pse_events_' = resolve_label(input_events_, pse_events_)
            /\ gstate' = "resolved"
            /\ UNCHANGED <<clone, cstate>>
    /\ UNCHANGED <<pc, object, fixed, cableio, frame, history, input_events_, start_index_,
                   was_reset, seq, copy_impl, cseq, copies>>

\* reset() on the copy: impl_->reset()
ResetCopy ==
    /\ copy_impl # 0
    /\ CopyState \in {"made", "resolved"}
    /\ cseq' = NoCall
    /\ IF copy_impl = 2
       THEN clone' = [clone EXCEPT !.start_index_ = 0] /\ UNCHANGED start_index_
       ELSE start_index_' = 0 /\ UNCHANGED clone
    /\ UNCHANGED <<pc, object, fixed, cableio, frame, history, gstate, input_events_, pse_events_,
                   was_reset, seq, copy_impl, cstate, copies>>

\* events(t0, t1) on the copy: impl_->events(t0, t1), called as the interface
\* requires
EventsCopy(t0, t1) ==
    /\ copy_impl # 0
    /\ CopyState = "resolved"
    /\ t0 <= t1
    /\ cseq = NoCall \/ cseq.t1 <= t0
    /\ LET evs   == IF copy_impl = 2 THEN clone.events_ ELSE pse_events_
           start == IF copy_impl = 2 THEN clone.start_index_ ELSE start_index_
           lb    == lower_bound(evs, start, Len(evs), t0)
           ub    == lower_bound(evs, lb, Len(evs), t1)
       IN  /\ cseq' = [t0 |-> t0, t1 |-> t1, lb |-> lb, ub |-> ub]
           /\ IF copy_impl = 2
              THEN clone' = [clone EXCEPT !.start_index_ = ub] /\ UNCHANGED start_index_
              ELSE start_index_' = ub /\ UNCHANGED clone
    /\ UNCHANGED <<pc, object, fixed, cableio, frame, history, gstate, input_events_, pse_events_,
                   was_reset, seq, copy_impl, cstate, copies>>

NextGen ==
    \/ \E input \in GenInputs(MaxInput) : MakeGenerator(input)
    \/ ResolveLabel
    \/ Reset
    \/ \E t0 \in 0..MaxT, t1 \in 0..(MaxT + 1) : Events(t0, t1)

SpecGen == Constructed(SomaCell) /\ [][NextGen]_vars

\* the input vectors of the generators that are copied: events of one label
\* and one weight, at any times before MaxT
CopyInputs ==
    {in \in GenInputs(MaxInput) :
        \A k \in 1..Len(in) : in[k].label = "a" /\ in[k].time < MaxT}

NextCopy ==
    \/ \E input \in CopyInputs : MakeGenerator(input)
    \/ ResolveLabel
    \/ Reset
    \/ \E t0 \in 0..(MaxT - 1), t1 \in 0..MaxT : Events(t0, t1)
    \/ CopyGenerator
    \/ MoveGenerator
    \/ AssignCopy
    \/ AssignOriginal
    \/ MoveAssignCopy
    \/ MoveAssignOriginal
    \/ ResolveLabelCopy
    \/ ResetCopy
    \/ \E t0 \in 0..(MaxT - 1), t1 \in 0..MaxT : EventsCopy(t0, t1)

SpecCopy == Constructed(SomaCell) /\ [][NextCopy]_vars

\* ------------------------------------------------------------ cableio calls
\* Each behaviour makes one call of a cableio function, on any of its inputs.
\* the types of the values an argument list holds
ArgTypes == {"morphology", "label_dict", "decor", "int"}

\* the argument lists of up to n values
RECURSIVE ArgLists(_)
ArgLists(n) ==
    IF n = 0 THEN {<<>>}
    ELSE LET shorter == ArgLists(n - 1)
         IN  shorter \cup
             {Append(a, ty) : a \in {x \in shorter : Len(x) = n - 1}, ty \in ArgTypes}

\* match_args of the evaluator of "cable-cell", called by eval on the
\* evaluated arguments
UnorderedMatch(args) ==
    /\ iocall = NoIo
    /\ iocall' = [fn |-> "unordered_match", args |-> args,
                  ret |-> unordered_match(CableCellArgs, args)]
    /\ UNCHANGED <<pc, object, fixed, frame, history, generator, ostream>>

NextMatch == iocall = NoIo /\ \E args \in ArgLists(MaxArgs) : UnorderedMatch(args)

SpecMatch == Constructed(SomaCell) /\ [][NextMatch]_vars

\* the versions a meta_data holds
Versions == {"0.1-dev", "0.1", "0.2-dev", "0.1-DEV", ""}

\* the alternatives of cable_cell_component::component
ComponentKinds == {"decor", "label_dict", "morphology", "cable_cell"}

\* the streams handed to write_component: empty, or written to before
Streams == {<<>>, <<"written before">>}

\* the outcomes of parse(sexp): an error, a value that is no component, or a
\* component
ParseOutcomes ==
    {[ok |-> FALSE, type |-> "", version |-> "", kind |-> ""]}
    \cup {[ok |-> TRUE, type |-> ty, version |-> "", kind |-> ""] : ty \in ArgTypes}
    \cup {[ok |-> TRUE, type |-> "cable_cell_component", version |-> v, kind |-> k] :
             v \in Versions, k \in ComponentKinds}

\* a call of one of the four overloads that take the component and the meta-data
WriteComponent(o, kind, version) ==
    /\ iocall = NoIo
    /\ LET r == write_component(o, kind, version)
       IN  /\ ostream' = r.o
           /\ iocall' = [fn |-> "write_component",
                         args |-> [o |-> o, kind |-> kind, version |-> version,
                                   overload |-> kind],
                         ret |-> r.thrown]
    /\ UNCHANGED <<pc, object, fixed, frame, history, generator>>

\* a call of the overload that takes a cable_cell_component
WriteComponentOf(o, x) ==
    /\ iocall = NoIo
    /\ LET r == write_component_of(o, x)
       IN  /\ ostream' = r.o
           /\ iocall' = [fn |-> "write_component",
                         args |-> [o |-> o, kind |-> x.kind, version |-> x.version,
                                   overload |-> "cable_cell_component"],
                         ret |-> r.thrown]
    /\ UNCHANGED <<pc, object, fixed, frame, history, generator>>

\* parse_component(s) on a string whose parse has the outcome try_parse
ParseComponent(try_parse) ==
    /\ iocall = NoIo
    /\ iocall' = [fn |-> "parse_component", args |-> try_parse,
                  ret |-> parse_component(try_parse)]
    /\ UNCHANGED <<pc, object, fixed, frame, history, generator, ostream>>

NextVersion ==
    \/ \E o \in Streams, k \in ComponentKinds, v \in Versions : WriteComponent(o, k, v)
    \/ \E o \in Streams, k \in ComponentKinds, v \in Versions :
            WriteComponentOf(o, [kind |-> k, version |-> v])
    \/ \E try_parse \in ParseOutcomes : ParseComponent(try_parse)

SpecVersion == Constructed(SomaCell) /\ [][NextVersion]_vars

\* the branches with id i: a branch of a lower id or none as parent, one
\* segment or two with the later id first
BranchesWithId(i) ==
    {[id |-> i, pid |-> p, segments |-> sg] :
        p \in -1..(i - 1), sg \in {<<2 * i>>, <<2 * i + 1, 2 * i>>}}

\* the lists of k branches with different ids out of 0..n-1, in any order
RECURSIVE BranchPrefixes(_, _)
BranchPrefixes(n, k) ==
    IF k = 0 THEN {<<>>}
    ELSE UNION {{Append(bs, b) :
                    b \in UNION {BranchesWithId(i) :
                                    i \in (0..(n - 1)) \ {bs[j].id : j \in 1..Len(bs)}}} :
                bs \in BranchPrefixes(n, k - 1)}

\* the argument lists of make_morphology of up to m branches: every branch id
\* 0..n-1 once
BranchLists(m) == UNION {BranchPrefixes(n, n) : n \in 1..m}

\* make_morphology called by the evaluator of "morphology"
MakeMorphology(args) ==
    /\ iocall = NoIo
    /\ iocall' = [fn |-> "make_morphology", args |-> args, ret |-> make_morphology(args)]
    /\ UNCHANGED <<pc, object, fixed, frame, history, generator, ostream>>

NextMorph == iocall = NoIo /\ \E args \in BranchLists(MaxBranches) : MakeMorphology(args)

SpecMorph == Constructed(SomaCell) /\ [][NextMorph]_vars

\* ------------------------------------------------------------ properties
IsPrefix(a, b) == Len(a) <= Len(b) /\ a = SubSeq(b, 1, Len(a))

\* the calls one advance makes on n mechanisms, in the order of the source
ExpectedLog(n) ==
    <<<<"zero", 0>>>>
    \o [j \in 1..(2 * n) |-> IF j % 2 = 1 THEN <<"set_params", (j - 1) \div 2>>
                                          ELSE <<"nrn_current", (j - 1) \div 2>>]
    \o <<<<"stimulii", 0>>, <<"setup_matrix", 0>>, <<"solve", 0>>, <<"voltage", 0>>>>
    \o [j \in 1..n |-> <<"nrn_state", j - 1>>]
    \o <<<<"t", 0>>>>

\* the events still queued and the one the running loop iteration has popped
Pending ==
    {events_[k] : k \in 1..Len(events_)} \cup (IF next.first THEN {next.second} ELSE {})

\* every event queued when advance_to was entered was at or after the time then
EntryOK == \A k \in 1..Len(entry.events) : entry.events[k].time >= entry.t

\* C1: in advance_to, when net_receive is called for a popped event e, the
\* advance before it has run to its end and the cell time equals e.time; every
\* event dispatched so far was dispatched at its own time.
EventAppliedAtItsTime ==
    /\ pc = "at_event" =>
          /\ next.first
          /\ t_ = next.second.time
          /\ log = ExpectedLog(Len(mechanisms_))
    /\ \A k \in 1..Len(delivered) : delivered[k][2] = delivered[k][1].time

\* an event that lay inside a full step is about to be dispatched
EventInsideStepAtDispatch ==
    /\ pc = "at_event"
    /\ to_dt = 2
    /\ entry.t = 0
    /\ next.second.time = 1
    /\ t_ = 1

\* C3: whenever advance_to calls advance(h) at time t, no event queued or just
\* popped has its time strictly inside (t, t + h), provided that no queued
\* event was in the past when advance_to was entered.
NoEventInsideStep ==
    (pc = "adv_zero" /\ caller = "advance_to" /\ EntryOK) =>
        \A e \in Pending : ~(t_ < e.time /\ e.time < t_ + dt)

\* advance is called with a step cut short at a popped event while a later
\* event is still queued
StepCutAtEvent ==
    /\ pc = "adv_zero" /\ caller = "advance_to" /\ EntryOK
    /\ next.first
    /\ 0 < dt /\ dt < to_dt
    /\ events_ # <<>>
    /\ t_ + dt = next.second.time

\* C4: advance_to(tfinal, dt) called when t >= tfinal returns at once and
\* changes nothing: t, V, the currents, the mechanisms, the matrix and the
\* event queue stay as they were, no mechanism method is called and no event
\* is popped or dispatched, up to and including the return.
ImmediateReturnChangesNothing ==
    /\ [][(pc = "idle" /\ lastcall'.op = "advance_to" /\ t_ >= tfinal') =>
            (pc' = "done" /\ UNCHANGED object /\ log' = log /\ delivered' = <<>>)]_vars
    /\ [][(pc = "done" /\ lastcall.op = "advance_to" /\ lastcall.immediate) =>
            (pc' = "idle" /\ UNCHANGED object)]_vars

\* an immediate return with an event before tfinal still in the queue
ImmediateReturnWithEarlyEvent ==
    /\ pc = "done"
    /\ lastcall.op = "advance_to" /\ lastcall.immediate
    /\ t_ >= tfinal
    /\ \E k \in 1..Len(events_) : events_[k].time < tfinal

\* C6: every call advance(h) made by advance_to(tfinal, dt) has h <= dt,
\* whatever the event queue holds.
StepAtMostDt ==
    (pc = "adv_zero" /\ caller = "advance_to") => dt <= to_dt

\* advance_to is about to take a step shorter than dt because of an event
ShortStepBeforeEvent ==
    /\ pc = "adv_zero" /\ caller = "advance_to"
    /\ next.first
    /\ to_dt = 2 /\ dt = 1
    /\ tfinal > t_ + dt

\* the scenario's call: advance_to(100, 5) entered at t = 0 with the one event queued
ScenarioCall ==
    /\ lastcall.op = "advance_to"
    /\ entry.t = 0
    /\ entry.events = <<ScenarioEvent>>

Repeat(x, n) == [k \in 1..n |-> x]

\* the sub-steps of the scenario as the specification's example lists them:
\* 0.3 to the event, then 0.2 back onto the grid of dt
GridSteps == Repeat(5, 6) \o <<3, 2>> \o Repeat(5, 13)

\* the sub-steps advance_to takes: after the event it steps by dt from the
\* event's time, and the last step is cut at tfinal
EventSteps == Repeat(5, 6) \o <<3>> \o Repeat(5, 13) \o <<2>>

\* C2 as stated: from t = 0 with one event at 33, advance_to(100, 5) takes the
\* sub-steps 5 x 6, 3, 2, 5, 5, 5, ... in that order.
StepsReturnToGrid == ScenarioCall => IsPrefix(steps, GridSteps)

\* C2 as amended: from t = 0 with one event at 33, advance_to(100, 5) takes the
\* sub-steps 5 x 6, 3, then 5 x 13 from the event's time (33 to 98) and a last
\* step 2 to tfinal, in that order, and no others.
StepsRestartAtEvent ==
    ScenarioCall =>
        /\ IsPrefix(steps, EventSteps)
        /\ pc = "done" => steps = EventSteps

\* the scenario's call has returned
ScenarioCallDone ==
    /\ ScenarioCall
    /\ pc = "done"
    /\ t_ = 100
    /\ Len(steps) = 21
    /\ Len(delivered) = 1

\* no event queued at entry lay before tfinal
NoEarlyEventAtEntry == \A k \in 1..Len(entry.events) : entry.events[k].time >= tfinal

\* a call advance_to that went into its loop is running or returning
InLoopCall == lastcall.op = "advance_to" /\ ~lastcall.immediate

\* C5: for dt > 0 and t < tfinal, advance_to(tfinal, dt) terminates and returns
\* with t = tfinal exactly; with dt <= 0 and no queued event before tfinal the
\* loop makes no progress: t never rises and the call never returns.
AdvanceToEndsAtTfinal ==
    /\ (pc = "at_loop" /\ to_dt > 0) ~> (pc = "done")
    /\ [](InLoopCall /\ to_dt > 0 /\ pc = "done" => t_ = tfinal)
    /\ [](InLoopCall /\ to_dt > 0 /\ pc \in {"at_loop", "at_test", "at_event"} =>
            t_ <= tfinal)
    /\ [](InLoopCall /\ to_dt <= 0 /\ NoEarlyEventAtEntry =>
            pc # "done" /\ t_ <= entry.t)

\* a call with dt > 0 that took a step cut at tfinal and popped an event has returned
ReturnedAfterCutStep ==
    /\ pc = "done" /\ InLoopCall
    /\ to_dt = 2
    /\ tfinal - entry.t = 1
    /\ t_ = tfinal
    /\ delivered # <<>>

StrictlyIncreasing(q) == \A k \in 1..(Len(q) - 1) : q[k] < q[k + 1]

\* C7: after construction of the integrator, and after initialize(), the
\* voltage of every CV equals the resting potential of -65 mV.
VoltageAtRestAfterConstruction ==
    (\/ pc = "idle" /\ runs = 0
     \/ pc = "done" /\ runs = 1 /\ lastcall.op = "initialize") =>
        \A i \in DOMAIN voltage_ : voltage_[i] = R(DEF_vrest)

\* C8: every advance performs its phases in the order of the source: zero the
\* currents; per mechanism in construction order set_params then nrn_current;
\* the stimuli; matrix assembly and solve; V overwritten with the solution;
\* nrn_state per mechanism in construction order; t increased by dt.  The
\* currents are zero when the mechanism loop starts, V holds the solution when
\* the state updates start, and t has moved by dt when advance ends.
AdvancePhasesInOrder ==
    /\ IsPrefix(log, ExpectedLog(Len(mechanisms_)))
    /\ pc = "adv_current" =>
          /\ log = <<<<"zero", 0>>>>
          /\ \A i \in DOMAIN current_ : current_[i] = R(0)
    /\ pc = "adv_assign" => log[Len(log)] = <<"solve", 0>>
    /\ pc = "adv_state" =>
          /\ log[Len(log)] = <<"voltage", 0>>
          /\ voltage_ = matrix_.rhs
    /\ (pc = "at_set_t" \/ (pc = "done" /\ lastcall.op = "advance")) =>
          log = ExpectedLog(Len(mechanisms_))
    /\ pc = "at_set_t" => t_ = tnext

\* an advance on a cell with two mechanisms has just run its last phase
AdvanceCompleted ==
    /\ pc = "done" /\ lastcall.op = "advance"
    /\ Len(mechanisms_) = 2
    /\ Len(log) = 12
    /\ \E i \in DOMAIN voltage_ : voltage_[i] # InitialVoltage

\* C9: V is written only by the assignment of the matrix solution in advance:
\* any step that changes V is that assignment; initialize, the current and
\* stimulus loops, the state updates, net_receive and queue pushes leave V alone.
VoltageWrittenOnlyBySolve ==
    [][voltage_' # voltage_ => (pc = "adv_assign" /\ voltage_' = matrix_.rhs)]_vars

\* initialize has run on a cell whose voltage an earlier advance had moved
InitializeAfterVoltageMoved ==
    /\ pc = "done" /\ lastcall.op = "initialize"
    /\ t_ = 0
    /\ \E i \in DOMAIN voltage_ : voltage_[i] # InitialVoltage

\* the number of CVs and the mechanisms of the constructed integrator
NumCVs == Cardinality(DOMAIN voltage_)

InRange(q) == \A k \in 1..Len(q) : q[k] \in 0..(NumCVs - 1)

\* C10: the node_index of every mechanism, density or synapse, is strictly
\* increasing with every entry in [0, N), whatever the order and the CVs of
\* the synapse locations.
NodeIndexStrictlyIncreasing ==
    pc # "failed" =>
        \A k \in 1..Len(mechanisms_) :
            StrictlyIncreasing(mechanisms_[k].node_index) /\ InRange(mechanisms_[k].node_index)

\* the entries of a list, as a set
Range(q) == {q[k] : k \in 1..Len(q)}

\* the ion kinds of mechanisms::ionKind
IonKinds == Range(ion_kinds)

\* the density mechanism names whose catalogue entry uses ion and that some
\* segment holding CV i carries
CarriersAt(ion, i) ==
    {name \in segment(cell, seg_of(cell, i)).mechs \ {"membrane"} : ion \in cell.uses[name]}

\* C11: for every constructed integrator and every ion kind K, the index list of
\* the ion state of K is sorted and free of duplicates, and a CV is on it exactly
\* if it is in the node_index of some mechanism that answers uses_ion(K) with
\* true, which is exactly if its segment carries a mechanism that uses K (an
\* ion kind without an ion state is used by no mechanism).
IonIndexIsSortedUnion ==
    pc # "failed" =>
        \A ion \in IonKinds :
            LET users == {j \in 1..Len(mechanisms_) : uses_ion(mechanisms_[j], ion)}
            IN  IF ion \in DOMAIN ions_
                THEN /\ \A k \in 1..(Len(ions_[ion]) - 1) : ions_[ion][k] < ions_[ion][k + 1]
                     /\ \A i \in 0..(NumCVs - 1) :
                           /\ (\E k \in 1..Len(ions_[ion]) : ions_[ion][k] = i)
                                 <=> (\E j \in users : \E k \in 1..Len(mechanisms_[j].node_index) :
                                         mechanisms_[j].node_index[k] = i)
                           /\ (\E k \in 1..Len(ions_[ion]) : ions_[ion][k] = i)
                                 <=> CarriersAt(ion, i) # {}
                     /\ InRange(ions_[ion])
                ELSE users = {}

\* two mechanisms use sodium, they share a CV, each has a CV the other lacks,
\* and the second starts on a CV before the last of the first
IonSharedByTwoMechanisms ==
    /\ pc = "idle"
    /\ "na" \in DOMAIN ions_
    /\ \E j1, j2 \in 1..Len(mechanisms_) :
          LET n1 == mechanisms_[j1].node_index
              n2 == mechanisms_[j2].node_index
          IN  /\ j1 < j2
              /\ uses_ion(mechanisms_[j1], "na") /\ uses_ion(mechanisms_[j2], "na")
              /\ Range(n1) \cap Range(n2) # {}
              /\ n2[1] < n1[Len(n1)]
              /\ ~(Range(n1) \subseteq Range(n2))
              /\ ~(Range(n2) \subseteq Range(n1))

\* C12: after construction the ion map holds an entry for ion kind K if and
\* only if at least one mechanism of the cell uses K.
IonStateOnlyIfUsed ==
    pc # "failed" =>
        \A ion \in IonKinds :
            (ion \in DOMAIN ions_) <=>
                (\E j \in 1..Len(mechanisms_) : uses_ion(mechanisms_[j], ion))

\* the cell has a soma after its first segment, or a segment of unsupported kind
BadSegmentList ==
    \E i \in 1..Len(cell.segs) :
        \/ cell.segs[i].kind = "soma" /\ i # 1
        \/ cell.segs[i].kind \notin {"soma", "cable"}

\* C13: construction fails, producing no integrator, exactly when a soma
\* stands at a segment index other than 0 or a segment is neither a soma nor a
\* cable; a list with its only soma at index 0 and cables elsewhere constructs.
ConstructionFailsOnBadSegment == (pc = "failed") <=> BadSegmentList

\* construction has failed on a second soma among somas and cables only
FailedOnSecondSoma ==
    /\ pc = "failed"
    /\ Len(cell.segs) = 3
    /\ cell.segs[1].kind = "soma" /\ cell.segs[2].kind = "cable" /\ cell.segs[3].kind = "soma"

\* the state of every instance of every mechanism in the list ms
StateOf(ms) == [j \in 1..Len(ms) |-> ms[j].state]

\* C14: if a step inside advance_to fails, V, t and the mechanism state are
\* left equal to their values at the end of the last sub-step that completed
\* before the error.
ErrorLeavesLastSubStep ==
    pc = "thrown" =>
        /\ t_ = snap.t
        /\ voltage_ = snap.V
        /\ StateOf(mechanisms_) = StateOf(snap.mechanisms)

\* the mechanism names found on the segments of the cell, the membrane aside
DensityNames == UNION {cell.segs[i].mechs : i \in 1..Len(cell.segs)} \ {"membrane"}

\* C15: after construction the mechanism list is one density mechanism per
\* distinct mechanism name other than "membrane" found on the segments,
\* followed by exactly one synapse mechanism as its last element, whose index
\* is synapse_index_ (also without synapses); the dispatch of a popped event
\* calls net_receive on that mechanism and changes no other.
OneSynapseMechanismLast ==
    /\ [](pc # "failed" =>
            /\ Len(mechanisms_) = Cardinality(DensityNames) + 1
            /\ \A j \in 1..(Len(mechanisms_) - 1) : mechanisms_[j].kind = "density"
            /\ {mechanisms_[j].name : j \in 1..(Len(mechanisms_) - 1)} = DensityNames
            /\ mechanisms_[Len(mechanisms_)].kind = "synapse"
            /\ Len(mechanisms_[Len(mechanisms_)].node_index) = Len(cell.synapses)
            /\ synapse_index_ = Len(mechanisms_) - 1)
    /\ [][pc = "at_event" =>
            /\ \A j \in 1..Len(mechanisms_) :
                  j # synapse_index_ + 1 => mechanisms_'[j] = mechanisms_[j]
            /\ mechanisms_'[synapse_index_ + 1] =
                  net_receive(mechanisms_[synapse_index_ + 1],
                              next.second.target, next.second.weight)
            /\ delivered' = Append(delivered, <<next.second, t_>>)]_vars

\* an event has been dispatched on a cell with two density mechanisms and two synapses
DispatchedAmongThree ==
    /\ pc = "at_test"
    /\ Len(mechanisms_) = 3
    /\ Len(cell.synapses) = 2
    /\ Len(delivered) = 1
    /\ delivered[1][1].target = 1

\* C16: on a cell without mechanisms, stimuli and events, whatever the tree
\* of its segments, the matrix solve returns the potential it was given and
\* no step of advance or advance_to changes the potential of any CV.
RestingVoltageConstant ==
    /\ [](pc = "adv_assign" => matrix_.rhs = voltage_)
    /\ [][pc # "idle" => voltage_' = voltage_]_vars

\* a sub-step has completed on a branching cell at the resting potential
RestStepOnBranchingCell ==
    /\ pc = "adv_time"
    /\ Len(cell.segs) = 3
    /\ cell.segs[2].parent = 0 /\ cell.segs[3].parent = 0
    /\ cell.segs[3].ncomp = 2
    /\ \A i \in DOMAIN voltage_ : voltage_[i] = R(DEF_vrest)

\* C17: initialize() sets t to 0 and calls nrn_init once on every mechanism, in
\* list order, and changes nothing else: the potential, the currents, the
\* matrix and the event queue are as before, so the events pushed before it
\* are still pending for a later advance_to.
InitializeResetsTimeOnly ==
    [][pc = "idle" /\ lastcall'.op = "initialize" =>
            /\ t_' = 0
            /\ inits' = [k \in 1..Len(mechanisms_) |-> <<"nrn_init", k - 1>>]
            /\ mechanisms_' = [k \in 1..Len(mechanisms_) |-> nrn_init(mechanisms_[k])]
            /\ UNCHANGED <<voltage_, current_, events_, matrix_, fixed>>]_vars

\* initialize() has run at a later time with two events pending and the
\* potential away from its initial value
InitializeWithEventsPending ==
    /\ pc = "done"
    /\ lastcall.op = "initialize"
    /\ Len(inits) = 2
    /\ Len(events_) = 2
    /\ t_ = 0
    /\ voltage_[0] # R(0)

\* the capacitance the segment loop has accumulated on each CV: the sum of
\* area * c_m over the CV's area contributions
accumulated_capacitance(c) ==
    segment_loop(c, parent_index(c), 0,
        [cv_areas_       |-> [i \in 0..(num_compartments(c) - 1) |-> R(0)],
         cv_capacitance_ |-> [i \in 0..(num_compartments(c) - 1) |-> R(0)],
         face_alpha_     |-> [i \in 0..(num_compartments(c) - 1) |-> R(0)],
         err |-> ""]).cv_capacitance_

\* C19: cv_capacitance() returns for each CV the total capacitance of the CV
\* surface, the sum of area * c_m over its area contributions, not the
\* capacitance per unit area.
CapacitanceIsTotal ==
    pc # "failed" => cv_capacitance_ = accumulated_capacitance(cell)

\* the spike events of the input vector with t0 <= time < t1
InputInRange(t0, t1) ==
    LET all == resolve_label_unsorted(input_events_, <<>>)
    IN  SelectSeq(all, LAMBDA e : t0 <= e.time /\ e.time < t1)

Count(q, e) == Cardinality({k \in 1..Len(q) : q[k] = e})

\* C20: with the labels resolved once, the first call events(t0, t1) after
\* construction or reset returns exactly the input events with
\* t0 <= time < t1, each as often as the input holds it, in ascending order by
\* time, then target, then weight, whatever the order of the input vector.
FirstCallReturnsRangeSorted ==
    seq.first =>
        LET out  == SubSeq(pse_events_, seq.lb + 1, seq.ub)
            want == InputInRange(seq.t0, seq.t1)
        IN  /\ \A k \in 1..(Len(out) - 1) : ~spike_event_less(out[k + 1], out[k])
            /\ \A e \in Range(out) \cup Range(want) : Count(out, e) = Count(want, e)

\* a first call has returned one of two events given latest first, the other
\* lying at t1
FirstCallOnUnorderedInput ==
    /\ seq.first
    /\ Len(input_events_) = 2
    /\ input_events_[1].time = seq.t1
    /\ input_events_[2].time = seq.t0
    /\ seq.ub - seq.lb = 1

\* the 0-based positions [lb, ub) a generator that has made no call since its
\* labels were resolved returns for events(t0, t1)
FreshEvents(t0, t1) ==
    LET lb == lower_bound(pse_events_, 0, Len(pse_events_), t0)
    IN  <<lb, lower_bound(pse_events_, lb, Len(pse_events_), t1)>>

\* C21: over calls of events that are monotonic in time, without a reset
\* between them, start_index_ never decreases and stays within the event
\* list, a call returns nothing a call before it returned, every call returns
\* exactly the events with t0 <= time < t1, and a call whose interval begins
\* where the one before it ended continues its result: the two together are
\* what a fresh generator returns for the joined interval.
MonotonicCallsPartitionEvents ==
    /\ [](/\ 0 <= start_index_ /\ start_index_ <= Len(pse_events_)
          /\ seq # NoSeq =>
                LET out  == SubSeq(pse_events_, seq.lb + 1, seq.ub)
                    want == InputInRange(seq.t0, seq.t1)
                IN  /\ start_index_ = seq.ub
                    /\ \A e \in Range(out) \cup Range(want) : Count(out, e) = Count(want, e))
    /\ [][seq' # NoSeq =>
            /\ start_index_' >= start_index_
            /\ seq'.lb >= start_index_
            /\ (seq # NoSeq /\ seq'.t0 = seq.t1) =>
                    /\ seq'.lb = seq.ub
                    /\ <<seq.lb, seq'.ub>> = FreshEvents(seq.t0, seq'.t1)]_vars

\* a second call has returned the second of two events, its interval beginning
\* where the first call's ended
SecondCallReturnsSecondEvent ==
    /\ seq # NoSeq /\ ~seq.first
    /\ Len(pse_events_) = 2
    /\ pse_events_[1].time = 0 /\ pse_events_[2].time = 1
    /\ seq.t0 = 1 /\ seq.t1 = 2
    /\ seq.lb = 1 /\ seq.ub = 2

\* C22: reset() puts an explicit_generator back in the state it had when its
\* labels were resolved: start_index_ is 0 and the resolved event list is the
\* one resolve_label made, so the calls that follow return what they return on
\* a freshly resolved generator; a reset of a generator in that state changes
\* nothing, and no reset changes the resolved event list.
ResetRestoresResolvedState ==
    /\ [](gstate = "resolved" =>
            /\ pse_events_ = resolve_label(input_events_, <<>>)
            /\ seq = NoSeq => start_index_ = 0
            /\ (was_reset /\ seq # NoSeq /\ seq.first) =>
                    <<seq.lb, seq.ub>> = FreshEvents(seq.t0, seq.t1))
    /\ [][((~was_reset /\ was_reset') \/ (seq # NoSeq /\ seq' = NoSeq)) =>
            /\ start_index_' = 0
            /\ UNCHANGED <<gstate, input_events_, pse_events_>>]_vars

\* after events were consumed and the generator was reset, a first call has
\* returned both events again
CallAfterResetReturnsAll ==
    /\ was_reset
    /\ seq # NoSeq /\ seq.first
    /\ Len(pse_events_) = 2
    /\ seq.lb = 0 /\ seq.ub = 2

\* the state of the generator object the original holds
OriginalState == <<input_events_, pse_events_, start_index_>>

\* C23: a copy of an event_generator (copy construction or copy assignment,
\* in either direction) starts in the state the other has at the time of the
\* copy and leaves that one as it was, and from then on a call of events,
\* reset or resolve_label on one of the two leaves the state of the other, and
\* with it the results of its later calls, as it was.
CopyIsIndependent ==
    /\ [][(copies' # copies /\ copies'.op \in {"copy", "assign_copy"}) =>
            /\ clone' = Wrapped
            /\ cstate' = gstate
            /\ UNCHANGED <<OriginalState, gstate, seq>>]_vars
    /\ [][(copies' # copies /\ copies'.op = "assign_original") =>
            /\ OriginalState' = <<clone.input_events_, clone.events_, clone.start_index_>>
            /\ gstate' = cstate
            /\ UNCHANGED <<clone, cstate, cseq>>]_vars
    /\ [][(copies' = copies /\ copy_impl # 0
              /\ (cseq' # cseq \/ clone' # clone \/ cstate' # cstate)) =>
            UNCHANGED <<OriginalState, gstate, seq>>]_vars
    /\ [][(copies' = copies /\ copy_impl # 0
              /\ (seq' # seq \/ OriginalState' # OriginalState \/ gstate' # gstate)) =>
            UNCHANGED <<clone, cstate, cseq>>]_vars
    /\ [](cseq # NoCall =>
            /\ clone.start_index_ = cseq.ub
            /\ \A k \in (cseq.lb + 1)..cseq.ub :
                  cseq.t0 <= clone.events_[k].time /\ clone.events_[k].time < cseq.t1)

\* the copy, made after the original had returned its first event, has
\* returned the second while the original was reset
CopyGoesOnAfterOriginalReset ==
    /\ copy_impl # 0
    /\ was_reset /\ start_index_ = 0 /\ seq = NoSeq
    /\ cseq # NoCall
    /\ cseq.lb = 1 /\ cseq.ub = 2

\* C24: unordered_match returns true for an argument list only if the list
\* has as many elements as Args and no more than one of them matches any one
\* type of Args; it accepts every permutation of one morphology, one
\* label_dict and one decor.
UnorderedMatchRejectsRepeats ==
    iocall.fn = "unordered_match" =>
        /\ iocall.ret =>
              /\ Len(iocall.args) = Len(CableCellArgs)
              /\ \A j \in 1..Len(CableCellArgs) :
                    Cardinality({k \in 1..Len(iocall.args) :
                                    match(CableCellArgs[j], iocall.args[k])}) <= 1
        /\ (Len(iocall.args) = 3 /\ Range(iocall.args) = Range(CableCellArgs)) => iocall.ret

\* C25: every overload of write_component throws cableio_version_error and
\* writes nothing to the stream when the version of the meta-data differs from
\* acc_version(); parse_component returns a component only when the parsed
\* value is a cable_cell_component whose version is acc_version(), and a parse
\* error otherwise.
VersionCheckedBeforeUse ==
    /\ iocall.fn = "write_component" =>
          IF iocall.args.version # "0.1-dev"
          THEN iocall.ret = "cableio_version_error" /\ ostream = iocall.args.o
          ELSE iocall.ret = "" /\ Len(ostream) = Len(iocall.args.o) + 1
    /\ iocall.fn = "parse_component" =>
          IF iocall.args.ok /\ iocall.args.type = "cable_cell_component"
             /\ iocall.args.version = "0.1-dev"
          THEN iocall.ret.ok /\ iocall.ret.kind = iocall.args.kind
          ELSE ~iocall.ret.ok /\ iocall.ret.error = "cableio_parse_error"

\* the overload for a cable_cell_component has thrown on a cable cell of
\* version "0.2-dev" and left the stream as it was
WriteOfOtherVersionThrown ==
    /\ iocall.fn = "write_component"
    /\ iocall.args.overload = "cable_cell_component"
    /\ iocall.args.kind = "cable_cell"
    /\ iocall.args.version = "0.2-dev"
    /\ iocall.ret = "cableio_version_error"
    /\ ostream = <<"written before">>

\* the branches of the argument list that are the parent of exactly one branch
SingleChildBranches(args) ==
    {i \in 0..(Len(args) - 1) :
        Cardinality({k \in 1..Len(args) : args[k].pid = i}) = 1}

\* C26: make_morphology throws cableio_morphology_error, naming the
\* lowest-numbered such branch, exactly when some branch is the parent of
\* exactly one branch; otherwise it throws no such error and appends the
\* segments to the tree in increasing order of their ids.
SingleChildBranchRejected ==
    iocall.fn = "make_morphology" =>
        LET bad == SingleChildBranches(iocall.args)
        IN  IF bad # {}
            THEN /\ iocall.ret.thrown = "cableio_morphology_error"
                 /\ iocall.ret.bid \in bad
                 /\ \A i \in bad : iocall.ret.bid <= i
            ELSE /\ iocall.ret.thrown = ""
                 /\ \A k \in 1..(Len(iocall.ret.tree) - 1) :
                       iocall.ret.tree[k][1] < iocall.ret.tree[k + 1][1]
                 /\ {iocall.ret.tree[k][1] : k \in 1..Len(iocall.ret.tree)} =
                       UNION {Range(iocall.args[k].segments) : k \in 1..Len(iocall.args)}

\* three branches in a chain, given last first: branches 0 and 1 have one
\* child each and branch 0 is named
ChainNamesBranchZero ==
    /\ iocall.fn = "make_morphology"
    /\ Len(iocall.args) = 3
    /\ iocall.args[1].id = 2 /\ iocall.args[1].pid = 1
    /\ iocall.args[2].id = 1 /\ iocall.args[2].pid = 0
    /\ iocall.args[3].id = 0 /\ iocall.args[3].pid = -1
    /\ iocall.ret.thrown = "cableio_morphology_error"
    /\ iocall.ret.bid = 0

\* the events the running (or last) advance_to has dispatched, in order
DeliveredEvents == [k \in 1..Len(delivered) |-> delivered[k][1]]

\* the cell time at the end of each sub-step of the running (or last)
\* advance_to: the time at its entry plus the sub-steps taken
RECURSIVE StepEndsFrom(_, _)
StepEndsFrom(t, k) ==
    IF k > Len(steps) THEN <<>>
    ELSE <<t + steps[k]>> \o StepEndsFrom(t + steps[k], k + 1)

StepEnds == StepEndsFrom(entry.t, 1)

\* the dispatches from the k-th on can be given sub-steps of their own, in
\* order, among the sub-steps from the j-th on: each at the end of its sub-step
RECURSIVE OwnSubStep(_, _)
OwnSubStep(k, j) ==
    IF k > Len(delivered) THEN TRUE
    ELSE IF j > Len(steps) THEN FALSE
    ELSE IF StepEnds[j] = delivered[k][2] THEN OwnSubStep(k + 1, j + 1)
    ELSE OwnSubStep(k, j + 1)

\* C27: when advance_to(tfinal, dt) with t < tfinal and dt > 0 returns, every
\* event that was queued at its entry with time < tfinal has been dispatched
\* exactly once, the dispatches are in non-decreasing order of time, each in a
\* sub-step of its own, and every event with time >= tfinal is still queued
\* and was not dispatched.
EventsBeforeTfinalConsumed ==
    (pc = "done" /\ InLoopCall /\ to_dt > 0) =>
        /\ \A e \in Range(entry.events) \cup Range(DeliveredEvents) \cup Range(events_) :
              /\ Count(DeliveredEvents, e) =
                     (IF e.time < tfinal THEN Count(entry.events, e) ELSE 0)
              /\ Count(events_, e) =
                     (IF e.time >= tfinal THEN Count(entry.events, e) ELSE 0)
        /\ \A k \in 1..(Len(delivered) - 1) :
              delivered[k][1].time <= delivered[k + 1][1].time
        /\ OwnSubStep(1, 1)

\* advance_to(2, 1) returns having dispatched an event at time 1 and left one
\* at time 2 in the queue
EventAtTfinalLeftQueued ==
    /\ pc = "done" /\ InLoopCall
    /\ to_dt = 1 /\ tfinal = 2 /\ entry.t = 0
    /\ Len(entry.events) = 2
    /\ Len(delivered) = 1 /\ delivered[1][1].time = 1
    /\ Len(events_) = 1 /\ events_[1].time = 2

\* the sum of x[c] over the children c >= k of CV i in the parent index p
RECURSIVE ChildSum(_, _, _, _, _)
ChildSum(x, p, i, k, n) ==
    IF k >= n THEN R(0)
    ELSE RAdd(IF p[k] = i THEN x[k] ELSE R(0), ChildSum(x, p, i, k + 1, n))

\* the matrix m is as setup_matrix(h) assembles it: l[i] = u[i] for i >= 1,
\* every row sums to the area of its CV, and d[i] is the area plus the face
\* terms 1e5*h*alpha of the face to the parent and of the faces to the children
Assembled(m, h) ==
    LET n == Cardinality(DOMAIN cv_areas_)
        a == [k \in 0..(n - 1) |-> RMul(R(100000 * h), face_alpha_[k])]
    IN  /\ \A i \in 1..(n - 1) : m.p[i] < i /\ m.l[i] = m.u[i]
        /\ \A i \in 0..(n - 1) :
              /\ RAdd(RAdd(m.d[i], IF i >= 1 THEN m.l[i] ELSE R(0)),
                      ChildSum(m.u, m.p, i, 1, n)) = cv_areas_[i]
              /\ m.d[i] = RAdd(RAdd(cv_areas_[i], IF i >= 1 THEN a[i] ELSE R(0)),
                               ChildSum(a, m.p, i, 1, n))

\* C28: setup_matrix(dt) on the parent index of any tree leaves l[i] = u[i]
\* for every i >= 1; in every row i the sum of d[i], l[i] (for i >= 1) and u[c]
\* over the children c of i is the area A[i]; d[i] is A[i] plus the face terms
\* 1e5*dt*alpha of the face to the parent and of the faces to the children;
\* and l[0] and u[0] are as they were before the call: when a client calls it,
\* and when advance calls it.
MatrixSymmetricRowSumsArea ==
    /\ (pc = "done" /\ lastcall.op = "setup_matrix") => Assembled(matrix_, dt)
    /\ pc = "adv_matrix" =>
          LET m == setup_matrix(matrix_, dt, cv_areas_, face_alpha_,
                                cv_capacitance_, voltage_, current_)
          IN  /\ Assembled(m, dt)
              /\ m.l[0] = matrix_.l[0] /\ m.u[0] = matrix_.u[0]

\* the matrix is set up for the second sub-step of a call on a cell whose soma
\* has two cables: the matrix still holds what the first solve left in it
SetupOnBranchingCellAgain ==
    /\ pc = "adv_matrix"
    /\ Len(cell.segs) = 3
    /\ cell.segs[2].parent = 0 /\ cell.segs[3].parent = 0
    /\ cell.segs[3].ncomp = 2
    /\ Len(steps) = 2
    /\ matrix_.d # cv_areas_
    /\ \E i \in DOMAIN matrix_.l : matrix_.l[i] # R(0)

====
